--------------------------- MODULE Spec2Model ---------------------------
(***************************************************************************)
(* The HCT colour system of md3-colors: ARGB packing and sRGB companding   *)
(* (utils/color), the CAM16 appearance model and the Hct colour (hct), and *)
(* the TonalPalette with its tone cache (palettes).                        *)
(*                                                                         *)
(* float64 is modelled in software, to about eight significant digits:     *)
(* the numbers are computed, as the code computes them, never assumed.     *)
(***************************************************************************)
EXTENDS Integers, Sequences, FiniteSets, TLC

\* The statements of a function body run in order: the value of the last of
\* them, after the ones before it have been evaluated.
Run(statements) == statements[Len(statements)]

(***************************************************************************)
(* The functions of the program call one another through Call, which       *)
(* evaluates the call of the function named f on the arguments args by     *)
(* the body of f: F(x) is Call("F", <<x>>), and FBody(x) is the body of F. *)
(***************************************************************************)
RECURSIVE Call(_, _)

(***************************************************************************)
(* float64.  A number is <<m, e>>, standing for m * 2^e, with m = 0 or     *)
(* 2^27 <= |m| < 2^28.                                                     *)
(***************************************************************************)
P14 == 2^14
P27 == 2^27
P28 == 2^28

Abs(n) == IF n < 0 THEN -n ELSE n
Sgn(n) == IF n < 0 THEN -1 ELSE IF n = 0 THEN 0 ELSE 1

\* The number of bits of n >= 0.
RECURSIVE BitLen(_)
BitLen(n) ==
  IF n < 2 THEN n
  ELSE IF n < 256 THEN 1 + BitLen(n \div 2)
  ELSE 8 + BitLen(n \div 256)

\* m * 2^e with the mantissa shifted k bits to the right (to the left for
\* k < 0).
Scale(m, e, k) ==
  IF k > 0 THEN <<Sgn(m) * (Abs(m) \div 2^k), e + k>>
  ELSE <<m * 2^(-k), e + k>>

\* The float64 nearest to m * 2^e, for an integer m of any sign.
Norm(m, e) == IF m = 0 THEN <<0, 0>> ELSE Scale(m, e, BitLen(Abs(m)) - 28)

F(n) == Norm(n, 0)

FZero == <<0, 0>>
FOne == <<P27, -27>>
FTwo == <<P27, -26>>
FHalf == <<P27, -28>>

FNeg(a) == <<-a[1], a[2]>>
FAbs(a) == <<Abs(a[1]), a[2]>>

\* The sign of a product or a quotient.
SignOf(a, b) == IF (a[1] < 0) = (b[1] < 0) THEN 1 ELSE -1

\* The product t of two mantissas, divided by 2^28, with sign s.
MulNorm(t, s, e) ==
  IF t < P27 THEN <<s * 2 * t, e + 27>> ELSE <<s * t, e + 28>>

\* x * y / 2^28 for mantissas x and y, by limbs of 14 bits.
MulMant(x, y) ==
  ((x \div P14) * (y \div P14))
    + ((((x \div P14) * (y % P14)) + ((x % P14) * (y \div P14))
        + (((x % P14) * (y % P14)) \div P14)) \div P14)

FMul(a, b) ==
  IF a[1] = 0 \/ b[1] = 0 THEN FZero
  ELSE MulNorm(MulMant(Abs(a[1]), Abs(b[1])), SignOf(a, b), a[2] + b[2])

\* x * 2^27 / y for mantissas x and y: the quotient q by the high limb y1 of
\* y, times 1 - d + d^2 for d = y0 / (y1 * 2^14), the rest of y.
DivHigh(x, y1) == (x \div y1) * 2^13 + (((x % y1) * 2^13) \div y1)

DivFirst(q, y1, y0) ==
  (((q \div P14) * y0) \div y1) + ((((q % P14) * y0) \div y1) \div P14)

DivSecond(q, c1, y1, y0) == q - c1 + (((c1 * y0) \div y1) \div P14)

DivCorrect(q, y1, y0) == DivSecond(q, DivFirst(q, y1, y0), y1, y0)

MantDiv(x, y) == DivCorrect(DivHigh(x, y \div P14), y \div P14, y % P14)

DivNorm(q, s, e) ==
  IF q < P27 THEN <<s * 2 * q, e - 28>>
  ELSE IF q >= P28 THEN <<s * (q \div 2), e - 26>>
  ELSE <<s * q, e - 27>>

FDiv(a, b) ==
  IF a[1] = 0 THEN FZero
  ELSE DivNorm(MantDiv(Abs(a[1]), Abs(b[1])), SignOf(a, b), a[2] - b[2])

\* hi + lo for hi of the larger exponent, d the difference of the exponents.
AddAligned(hi, lo, d) ==
  IF d > 28 THEN hi
  ELSE Norm(hi[1] * 2 + Sgn(lo[1]) * ((Abs(lo[1]) * 2) \div 2^d), hi[2] - 1)

FAdd(a, b) ==
  IF a[1] = 0 THEN b
  ELSE IF b[1] = 0 THEN a
  ELSE AddAligned(IF a[2] >= b[2] THEN a ELSE b, IF a[2] >= b[2] THEN b ELSE a,
                  Abs(a[2] - b[2]))

FSub(a, b) == FAdd(a, FNeg(b))

FLt(a, b) == FSub(a, b)[1] < 0
FLe(a, b) == FSub(a, b)[1] <= 0
FGt(a, b) == FLt(b, a)
FGe(a, b) == FLe(b, a)

\* A decimal literal n / d of the source.
Dec(n, d) == FDiv(F(n), F(d))

\* math.Trunc, as an integer.
FTrunc(a) ==
  IF a[2] >= 0 THEN a[1] * 2^a[2]
  ELSE IF a[2] < -28 THEN 0
  ELSE Sgn(a[1]) * (Abs(a[1]) \div 2^(-a[2]))

\* math.Floor, as an integer.
FloorOf(a, t) == IF FLt(a, F(t)) THEN t - 1 ELSE t
FFloor(a) == FloorOf(a, FTrunc(a))

\* math.Round, as an integer: halves round away from zero.
FRound(a) ==
  IF a[2] >= 0 THEN a[1] * 2^a[2]
  ELSE IF a[2] < -28 THEN 0
  ELSE Sgn(a[1]) * ((Abs(a[1]) + 2^(-a[2] - 1)) \div 2^(-a[2]))

(***************************************************************************)
(* Package math.  Each function reduces its argument to a small interval   *)
(* and sums a power series there, to about eight significant digits.       *)
(***************************************************************************)
\* NaN, the result of a function outside its domain: no operation of the
\* model applies to it, so a computation that reaches it stops with an error.
NaN == "NaN"

\* ln 2, sqrt 2, pi and pi / 2.
Ln2 == <<186065279, -28>>
Sqrt2 == <<189812531, -27>>
Pi == <<210828714, -26>>
HalfPi == <<210828714, -27>>

\* 1/n + w (1/(n+2) + w (...)), by Horner's rule from the innermost term
\* acc: the series of atanh (w = z^2) and of arctan (w = -z^2), over z.
RECURSIVE OddSeries(_, _, _)
OddSeries(w, n, acc) ==
  IF n < 1 THEN acc
  ELSE Run(<<acc, OddSeries(w, n - 2, FAdd(Dec(1, n), FMul(w, acc)))>>)

\* ln u + k ln 2, for z = (u - 1) / (u + 1):
\* ln u = 2 atanh z = 2 z (1 + z^2/3 + z^4/5 + ...).
LnSeries(z, k) ==
  Run(<<z, FAdd(FMul(F(k), Ln2),
                FMul(FMul(FTwo, z), OddSeries(FMul(z, z), 11, Dec(1, 13))))>>)

LnReduced(u, k) == LnSeries(FDiv(FSub(u, FOne), FAdd(u, FOne)), k)

\* math.Log, for a > 0: a = u * 2^k with u in [1/sqrt 2, sqrt 2).
FLn(a) == Call("FLn", <<a>>)

\* The body of FLn.
FLnBody(a) ==
  IF a[1] <= 0 THEN NaN
  ELSE Run(<<a, LnReduced(<<a[1], IF a[1] > Sqrt2[1] THEN -28 ELSE -27>>,
                          a[2] + (IF a[1] > Sqrt2[1] THEN 28 ELSE 27))>>)

\* 1 + r/n (1 + r/(n+1) (...)), from the innermost term acc.
RECURSIVE ExpSeries(_, _, _)
ExpSeries(r, n, acc) ==
  IF n < 1 THEN acc
  ELSE Run(<<acc, ExpSeries(r, n - 1, FAdd(FOne, FDiv(FMul(r, acc), F(n))))>>)

ExpScale(e, k) == IF e[1] = 0 THEN FZero ELSE <<e[1], e[2] + k>>

ExpReduced(r, k) == Run(<<r, ExpScale(ExpSeries(r, 9, FOne), k)>>)

ExpSplit(a, k) == Run(<<k, ExpReduced(FSub(a, FMul(F(k), Ln2)), k)>>)

\* math.Exp: a = k ln 2 + r with |r| <= ln 2 / 2, and
\* e^r = 1 + r/1 (1 + r/2 (1 + r/3 (...))).
FExp(a) == Call("FExp", <<a>>)

\* The body of FExp.
FExpBody(a) == Run(<<a, ExpSplit(a, FRound(FDiv(a, Ln2)))>>)

\* math.Pow, for an exponent b >= 0 that is no integer unless the base is
\* positive: the power of a negative base is NaN.
FPow(a, b) == Call("FPow", <<a, b>>)

\* The body of FPow.
FPowBody(a, b) ==
  IF b[1] = 0 THEN FOne
  ELSE IF a[1] = 0 THEN FZero
  ELSE FExp(FMul(b, FLn(a)))

\* Newton's iteration for the square root of u: y becomes (y + u/y) / 2.
RECURSIVE SqrtSteps(_, _, _)
SqrtSteps(u, y, n) ==
  IF n < 1 THEN y
  ELSE Run(<<y, SqrtSteps(u, FMul(FHalf, FAdd(y, FDiv(u, y))), n - 1)>>)

SqrtScale(y, k) == <<y[1], y[2] + k>>

SqrtReduced(u, k) == SqrtScale(SqrtSteps(u, FMul(FHalf, FAdd(FOne, u)), 4), k)

\* math.Sqrt, for a >= 0: a = u * 4^k with u in [1, 4).
FSqrt(a) == Call("FSqrt", <<a>>)

\* The body of FSqrt.
FSqrtBody(a) ==
  IF a[1] = 0 THEN FZero
  ELSE IF a[1] < 0 THEN NaN
  ELSE SqrtReduced(<<a[1], ((a[2] + 27) % 2) - 27>>,
                   (a[2] + 27 - ((a[2] + 27) % 2)) \div 2)

CbrtSign(a, r) == IF a[1] < 0 THEN FNeg(r) ELSE r

\* math.Cbrt.
FCbrt(a) == Call("FCbrt", <<a>>)

\* The body of FCbrt.
FCbrtBody(a) ==
  IF a[1] = 0 THEN FZero
  ELSE CbrtSign(a, FExp(FDiv(FLn(FAbs(a)), F(3))))

\* math.Hypot.
FHypot(a, b) == Call("FHypot", <<a, b>>)

\* The body of FHypot.
FHypotBody(a, b) == FSqrt(FAdd(FMul(a, a), FMul(b, b)))

\* math.Log1p.
FLog1p(a) == Call("FLog1p", <<a>>)

\* The body of FLog1p.
FLog1pBody(a) == FLn(FAdd(FOne, a))

\* 1 - z/(n (n+1)) (1 - z/((n+2) (n+3)) (...)), from the innermost term acc:
\* the series of the sine (n even) and of the cosine (n odd), over z = x^2.
RECURSIVE TrigSeries(_, _, _)
TrigSeries(z, n, acc) ==
  IF n < 1 THEN acc
  ELSE Run(<<acc, TrigSeries(z, n - 2,
                             FSub(FOne, FDiv(FMul(z, acc), F(n * (n + 1)))))>>)

\* In quadrant q, the sine is sin r, cos r, -sin r, -cos r of the rest r:
\* series s, times r for a sine, negated in quadrants 2 and 3.
TrigSign(r, q, s) ==
  IF q = 0 THEN FMul(r, s)
  ELSE IF q = 1 THEN s
  ELSE IF q = 2 THEN FNeg(FMul(r, s))
  ELSE FNeg(s)

\* sin r = r (1 - z/(2*3) (1 - z/(4*5) (...))) and
\* cos r = 1 - z/(1*2) (1 - z/(3*4) (...)), for |r| <= pi/4.
TrigReduced(r, q) ==
  Run(<<r, TrigSign(r, q, TrigSeries(FMul(r, r), IF q % 2 = 0 THEN 10 ELSE 9, FOne))>>)

\* The sine of x + shift * pi/2: x = n pi/2 + r with |r| <= pi/4.
TrigQuadrant(x, n, shift) ==
  Run(<<n, TrigReduced(FSub(x, FMul(F(n), HalfPi)), (n + shift) % 4)>>)

\* math.Sin.
FSin(x) == Call("FSin", <<x>>)

\* The body of FSin.
FSinBody(x) == Run(<<x, TrigQuadrant(x, FRound(FDiv(x, HalfPi)), 0)>>)

\* math.Cos.
FCos(x) == Call("FCos", <<x>>)

\* The body of FCos.
FCosBody(x) == Run(<<x, TrigQuadrant(x, FRound(FDiv(x, HalfPi)), 1)>>)

\* arctan(i / 4) for i in 0..4.
AtanQuarter ==
  << FZero, <<263043837, -30>>, <<248918915, -29>>,
     <<172738514, -28>>, <<210828714, -28>> >>

\* arctan c + arctan z, and arctan z = z (1 - z^2/3 + z^4/5 - ...).
AtanSum(i, z) ==
  Run(<<z, FAdd(AtanQuarter[i + 1],
                FMul(z, OddSeries(FNeg(FMul(z, z)), 9, Dec(1, 11))))>>)

AtanNear(t, i, c) == AtanSum(i, FDiv(FSub(t, c), FAdd(FOne, FMul(t, c))))

\* arctangent of 0 <= t <= 1: with c = i/4 the quarter nearest to t,
\* arctan t = arctan c + arctan z for z = (t - c) / (1 + t c), |z| <= 1/8.
AtanUnit(t, i) == Run(<<i, AtanNear(t, i, Dec(i, 4))>>)

AtanUnfold(small, a) == IF small THEN a ELSE FSub(HalfPi, a)

AtanFold(small, t) == Run(<<t, AtanUnfold(small, AtanUnit(t, FRound(FMul(t, F(4)))))>>)

\* arctangent of t >= 0: arctan t = pi/2 - arctan(1/t) for t > 1.
AtanPos(t, small) == AtanFold(small, IF small THEN t ELSE FDiv(FOne, t))

Atan2Sign(y, x, a) ==
  IF y[1] < 0 THEN (IF x[1] > 0 THEN FNeg(a) ELSE FNeg(FSub(Pi, a)))
  ELSE (IF x[1] > 0 THEN a ELSE FSub(Pi, a))

Atan2Ratio(y, x, t) == Run(<<t, Atan2Sign(y, x, AtanPos(t, FLe(t, FOne)))>>)

\* math.Atan2(y, x), in (-pi, pi].
FAtan2(y, x) == Call("FAtan2", <<y, x>>)

\* The body of FAtan2.
FAtan2Body(y, x) ==
  IF x[1] = 0 THEN
    (IF y[1] = 0 THEN FZero
     ELSE IF y[1] > 0 THEN HalfPi ELSE FNeg(HalfPi))
  ELSE Atan2Ratio(y, x, FDiv(FAbs(y), FAbs(x)))

ModRest(a, b, n) == FSub(a, FMul(F(n), b))

\* math.Mod(a, b) for b > 0: the result has the sign of a.
FMod(a, b) == Call("FMod", <<a, b>>)

\* The body of FMod.
FModBody(a, b) == ModRest(a, b, FTrunc(FDiv(a, b)))

\* math.Max, math.Min.
FMax(a, b) == IF FLt(a, b) THEN b ELSE a
FMin(a, b) == IF FLt(b, a) THEN b ELSE a

(***************************************************************************)
(* Go's int.  A value that may need more than 31 bits (an ARGB colour) is  *)
(* a word <<hi, lo>>, standing for hi * 2^16 + lo with 0 <= lo < 2^16, in  *)
(* two's complement: a negative int has a negative hi.  Small ints (a      *)
(* colour component, a tone) are plain integers.                           *)
(***************************************************************************)
P16 == 2^16

\* The word of a small int.
W(n) == <<n \div P16, n % P16>>

\* a | b for two limbs; -1 is the limb of all ones.
RECURSIVE BitOr(_, _)
BitOr(a, b) ==
  IF a = 0 THEN b
  ELSE IF b = 0 THEN a
  ELSE IF a = -1 \/ b = -1 THEN -1
  ELSE (IF a % 2 = 1 \/ b % 2 = 1 THEN 1 ELSE 0) + 2 * BitOr(a \div 2, b \div 2)

\* v | w.
Or(v, w) == <<BitOr(v[1], w[1]), BitOr(v[2], w[2])>>

\* a & b for two limbs.
RECURSIVE BitAnd(_, _)
BitAnd(a, b) ==
  IF a = 0 \/ b = 0 THEN 0
  ELSE IF a = -1 THEN b
  ELSE IF b = -1 THEN a
  ELSE (IF a % 2 = 1 /\ b % 2 = 1 THEN 1 ELSE 0) + 2 * BitAnd(a \div 2, b \div 2)

\* v & w.
And(v, w) == <<BitAnd(v[1], w[1]), BitAnd(v[2], w[2])>>

\* The small int of a word.
Small(w) == w[1] * P16 + w[2]

\* w << 8.
Shl8(w) == <<w[1] * 256 + (w[2] \div 256), (w[2] % 256) * 256>>

\* w << k, for k a multiple of 8.
RECURSIVE Shl(_, _)
Shl(w, k) == IF k = 0 THEN w ELSE Shl(Shl8(w), k - 8)

\* w >> 8 (arithmetic).
Shr8(w) == <<w[1] \div 256, (w[1] % 256) * 256 + (w[2] \div 256)>>

\* w >> k, for k a multiple of 8.
RECURSIVE Shr(_, _)
Shr(w, k) == IF k = 0 THEN w ELSE Shr(Shr8(w), k - 8)

(***************************************************************************)
(* utils/math                                                              *)
(***************************************************************************)
Signum(num) ==
  IF num[1] < 0 THEN FNeg(FOne) ELSE IF num[1] = 0 THEN FZero ELSE FOne

Lerp(start, stop, amount) ==
  FAdd(FMul(FSub(FOne, amount), start), FMul(amount, stop))

ClampInt(min, max, input) ==
  IF input < min THEN min ELSE IF input > max THEN max ELSE input

ClampDouble(min, max, input) ==
  IF FLt(input, min) THEN min ELSE IF FGt(input, max) THEN max ELSE input

ToDegrees(radians) == FDiv(FMul(radians, F(180)), Pi)

ToRadians(degrees) == FDiv(FMul(degrees, Pi), F(180))

\* Go's % truncates toward zero: the remainder has the sign of the dividend.
GoRem(a, b) == Sgn(a) * (Abs(a) % b)

\* A faulty wrap, which adds nothing.
WrapDegreesIntAbsent(degrees) == degrees

\* degrees + 360 if degrees < 0.
WrapDegreesInt(degrees) == IF degrees < 0 THEN degrees + 360 ELSE degrees
WrapDegreesDouble(degrees) ==
  IF degrees[1] < 0 THEN FAdd(degrees, F(360)) ELSE degrees

SanitizeDegreesInt(degrees) == WrapDegreesInt(GoRem(degrees, 360))

SanitizeDegreesDouble(degrees) == WrapDegreesDouble(FMod(degrees, F(360)))

\* One entry of the product: the row times a row of the matrix.
MatrixRow(row, matrixRow) ==
  FAdd(FAdd(FMul(row[1], matrixRow[1]), FMul(row[2], matrixRow[2])),
       FMul(row[3], matrixRow[3]))

\* A faulty MatrixMultiply, which takes the columns of the matrix.
MatrixMultiplyByColumns(row, matrix) ==
  Run(<<row,
        <<MatrixRow(row, <<matrix[1][1], matrix[2][1], matrix[3][1]>>),
          MatrixRow(row, <<matrix[1][2], matrix[2][2], matrix[3][2]>>),
          MatrixRow(row, <<matrix[1][3], matrix[2][3], matrix[3][3]>>)>> >>)

MatrixMultiply(row, matrix) == Call("MatrixMultiply", <<row, matrix>>)

\* The body of MatrixMultiply.
MatrixMultiplyBody(row, matrix) ==
  Run(<<row, <<MatrixRow(row, matrix[1]), MatrixRow(row, matrix[2]),
               MatrixRow(row, matrix[3])>> >>)

(***************************************************************************)
(* utils/color                                                             *)
(***************************************************************************)
srgbToXyz ==
  << <<Dec(41233895, 10^8), Dec(35762064, 10^8), Dec(18051042, 10^8)>>,
     <<Dec(2126, 10^4), Dec(7152, 10^4), Dec(722, 10^4)>>,
     <<Dec(1932141, 10^8), Dec(11916382, 10^8), Dec(95034478, 10^8)>> >>

xyzToSrgb ==
  << <<Dec(324137748, 10^8), Dec(-153766524, 10^8), Dec(-498853668, 10^9)>>,
     <<Dec(-969145251, 10^9), Dec(187588535, 10^8), Dec(41565856, 10^9)>>,
     <<Dec(55620937, 10^9), Dec(-203955246, 10^9), Dec(105717991, 10^8)>> >>

whitePointD65 == <<Dec(95047, 1000), F(100), Dec(108883, 1000)>>

\* A faulty ArgbFromRgb, which packs the components without masking them.
ArgbFromRgbUnmasked(red, green, blue) ==
  Or(Or(Or(Shl(W(255), 24), Shl(W(red), 16)), Shl(W(green), 8)), W(blue))

ArgbFromRgb(red, green, blue) ==
  Or(Or(Or(Shl(W(255), 24), Shl(And(W(red), W(255)), 16)),
        Shl(And(W(green), W(255)), 8)),
     And(W(blue), W(255)))

AlphaFromArgb(argb) == Small(And(Shr(argb, 24), W(255)))

\* A faulty RedFromArgb, which shifts by the offset of the green byte.
RedFromArgbOfGreen(argb) == Small(And(Shr(argb, 8), W(255)))

RedFromArgb(argb) == Small(And(Shr(argb, 16), W(255)))

GreenFromArgb(argb) == Small(And(Shr(argb, 8), W(255)))

BlueFromArgb(argb) == Small(And(argb, W(255)))

IsOpaque(argb) == AlphaFromArgb(argb) >= 255

\* The return of Linearized, of the normalized component.
LinearizedOf(normalized) ==
  IF FLe(normalized, Dec(40449936, 10^9))
  THEN FMul(FDiv(normalized, Dec(1292, 100)), F(100))
  ELSE FMul(FPow(FDiv(FAdd(normalized, Dec(55, 1000)), Dec(1055, 1000)),
                 Dec(24, 10)),
            F(100))

Linearized(rgbComponent) == Call("Linearized", <<rgbComponent>>)

\* The body of Linearized.
LinearizedBody(rgbComponent) == LinearizedOf(FDiv(F(rgbComponent), F(255)))

\* The delinearized value, of the normalized component.
DelinearizedOf(normalized) ==
  IF FLe(normalized, Dec(31308, 10^7))
  THEN FMul(normalized, Dec(1292, 100))
  ELSE FSub(FMul(Dec(1055, 1000), FPow(normalized, FDiv(FOne, Dec(24, 10)))),
            Dec(55, 1000))

\* A faulty Delinearized, which converts to int without rounding.
DelinearizedTruncated(rgbComponent) ==
  ClampInt(0, 255,
           FTrunc(FMul(DelinearizedOf(FDiv(rgbComponent, F(100))), F(255))))

Delinearized(rgbComponent) == Call("Delinearized", <<rgbComponent>>)

\* The body of Delinearized.
DelinearizedBody(rgbComponent) ==
  ClampInt(0, 255,
           FRound(FMul(DelinearizedOf(FDiv(rgbComponent, F(100))), F(255))))

ArgbFromLinrgb(linrgb) ==
  Run(<<linrgb, ArgbFromRgb(Delinearized(linrgb[1]), Delinearized(linrgb[2]),
                            Delinearized(linrgb[3]))>>)

\* ArgbFromXyz, with the matrix it multiplies by.
ArgbFromXyzBy(matrix, x, y, z) ==
  Run(<<x, y, z,
        ArgbFromRgb(
          Delinearized(FAdd(FAdd(FMul(matrix[1][1], x), FMul(matrix[1][2], y)),
                            FMul(matrix[1][3], z))),
          Delinearized(FAdd(FAdd(FMul(matrix[2][1], x), FMul(matrix[2][2], y)),
                            FMul(matrix[2][3], z))),
          Delinearized(FAdd(FAdd(FMul(matrix[3][1], x), FMul(matrix[3][2], y)),
                            FMul(matrix[3][3], z))))>>)

ArgbFromXyz(x, y, z) == ArgbFromXyzBy(xyzToSrgb, x, y, z)

XyzFromArgb(argb) ==
  MatrixMultiply(<<Linearized(RedFromArgb(argb)), Linearized(GreenFromArgb(argb)),
                   Linearized(BlueFromArgb(argb))>>,
                 srgbToXyz)

labF(t) ==
  LET e     == Dec(216, 24389)
      kappa == Dec(24389, 27)
  IN  IF FGt(t, e) THEN FPow(t, FDiv(FOne, F(3)))
      ELSE FDiv(FAdd(FMul(kappa, t), F(16)), F(116))

\* The return of labInvf, of ft and its cube ft3.
labInvfOf(ft, ft3) ==
  LET e     == Dec(216, 24389)
      kappa == Dec(24389, 27)
  IN  IF FGt(ft3, e) THEN ft3
      ELSE FDiv(FSub(FMul(F(116), ft), F(16)), kappa)

labInvf(ft) == labInvfOf(ft, FMul(FMul(ft, ft), ft))

\* The return of ArgbFromLstar, of fy (which fx and fz equal) and its cube.
ArgbFromLstarOf(lstar, cube, whitePoint) ==
  LET kappa   == Dec(24389, 27)
      epsilon == Dec(216, 24389)
  IN  ArgbFromXyz(
        FMul(IF FGt(cube, epsilon) THEN cube ELSE FDiv(lstar, kappa), whitePoint[1]),
        FMul(IF FGt(lstar, F(8)) THEN cube ELSE FDiv(lstar, kappa), whitePoint[2]),
        FMul(IF FGt(cube, epsilon) THEN cube ELSE FDiv(lstar, kappa), whitePoint[3]))

ArgbFromLstarFy(lstar, fy) ==
  Run(<<fy, ArgbFromLstarOf(lstar, FMul(FMul(fy, fy), fy), whitePointD65)>>)

\* A faulty ArgbFromLstar, whose fy lacks the offset of 16.
ArgbFromLstarWithoutOffset(lstar) ==
  Run(<<lstar, ArgbFromLstarFy(lstar, FDiv(lstar, F(116)))>>)

ArgbFromLstar(lstar) == Call("ArgbFromLstar", <<lstar>>)

\* The body of ArgbFromLstar.
ArgbFromLstarBody(lstar) ==
  Run(<<lstar, ArgbFromLstarFy(lstar, FDiv(FAdd(lstar, F(16)), F(116)))>>)

\* The return of LstarFromArgb, of y.
LstarFromArgbOf(y) ==
  IF FLe(y, Dec(216, 24389)) THEN FMul(Dec(24389, 27), y)
  ELSE FSub(FMul(F(116), FPow(y, FDiv(FOne, F(3)))), F(16))

LstarFromArgb(argb) == Call("LstarFromArgb", <<argb>>)

\* The body of LstarFromArgb.
LstarFromArgbBody(argb) == LstarFromArgbOf(FDiv(XyzFromArgb(argb)[2], F(100)))

YFromLstar(lstar) == Call("YFromLstar", <<lstar>>)

\* The body of YFromLstar.
YFromLstarBody(lstar) ==
  IF FGt(lstar, F(8))
  THEN FMul(FPow(FDiv(FAdd(lstar, F(16)), F(116)), F(3)), F(100))
  ELSE FMul(FDiv(lstar, Dec(24389, 27)), F(100))

LstarFromY(y) == FSub(FMul(labF(FDiv(y, F(100))), F(116)), F(16))

WhitePointD65 == whitePointD65

(***************************************************************************)
(* hct: viewing conditions.  A ViewingConditions is a record of its ten    *)
(* fields.                                                                 *)
(***************************************************************************)
XYZToCam16RGB ==
  << <<Dec(401288, 10^6), Dec(650173, 10^6), Dec(-51461, 10^6)>>,
     <<Dec(-250268, 10^6), Dec(1204414, 10^6), Dec(45854, 10^6)>>,
     <<Dec(-2079, 10^6), Dec(48952, 10^6), Dec(953127, 10^6)>> >>

CAM16RGBToXYZ ==
  << <<Dec(18620678, 10^7), Dec(-10112547, 10^7), Dec(14918678, 10^8)>>,
     <<Dec(38752654, 10^8), Dec(62144744, 10^8), Dec(-897398, 10^8)>>,
     <<Dec(-1584150, 10^8), Dec(-3412294, 10^8), Dec(10499644, 10^7)>> >>

\* c, of the surround factor f.
SurroundC(f) ==
  IF FGe(f, Dec(9, 10))
  THEN Lerp(Dec(59, 100), Dec(69, 100), FMul(FSub(f, Dec(9, 10)), F(10)))
  ELSE Lerp(Dec(525, 1000), Dec(59, 100), FMul(FSub(f, Dec(8, 10)), F(10)))

\* d, the degree of adaptation.
AdaptationD(f, adaptingLuminance, discountingIlluminant) ==
  IF discountingIlluminant THEN FOne
  ELSE FMin(FMax(FZero,
                 FMul(f, FSub(FOne,
                              FMul(FDiv(FOne, Dec(36, 10)),
                                   FExp(FDiv(FSub(FNeg(adaptingLuminance), F(42)),
                                             F(92))))))),
            FOne)

\* One entry of rgbD, of d and the entry rW of the white's cone response.
DiscountOf(d, rW) == FSub(FAdd(FMul(d, FDiv(F(100), rW)), FOne), d)

\* fl, of k4, k4F and the adapting luminance.
LuminanceLevelOf(k4, k4F, adaptingLuminance) ==
  FAdd(FMul(k4, adaptingLuminance),
       FMul(FMul(FMul(Dec(1, 10), k4F), k4F), FCbrt(FMul(F(5), adaptingLuminance))))

\* fl, of k.
LuminanceLevelK(k, adaptingLuminance) ==
  Run(<<k, LuminanceLevelOf(FMul(FMul(FMul(k, k), k), k),
                            FSub(FOne, FMul(FMul(FMul(k, k), k), k)),
                            adaptingLuminance)>>)

\* fl.
LuminanceLevel(adaptingLuminance) ==
  LuminanceLevelK(FDiv(FOne, FAdd(FMul(F(5), adaptingLuminance), FOne)),
                  adaptingLuminance)

\* One entry of rgbA, of the entry of rgbAFactors.
CompressedOf(factor) == FDiv(FMul(F(400), factor), FAdd(factor, Dec(2713, 100)))

\* One entry of rgbA.
Compressed(fl, rD, rW) ==
  CompressedOf(FPow(FDiv(FMul(FMul(fl, rD), rW), F(100)), Dec(42, 100)))

\* The ViewingConditions returned, of the values computed before.
ViewingConditionsOf(rgbW, rgbD, c, nc, fl, n, nbb) ==
  Run(<<rgbD, fl, n, nbb,
        [Aw |-> FMul(FAdd(FAdd(FMul(FTwo, Compressed(fl, rgbD[1], rgbW[1])),
                               Compressed(fl, rgbD[2], rgbW[2])),
                          FMul(Dec(5, 100), Compressed(fl, rgbD[3], rgbW[3]))),
                     nbb),
         Nbb |-> nbb, Ncb |-> nbb, C |-> c, Nc |-> nc, N |-> n, RgbD |-> rgbD,
         Fl |-> fl, FlRoot |-> FPow(fl, Dec(25, 100)),
         Z |-> FAdd(Dec(148, 100), FSqrt(n))]>>)

\* MakeViewingConditions from d on.
ViewingConditionsFromD(rgbW, f, c, d, fl, n) ==
  Run(<<rgbW, f, c, d,
        ViewingConditionsOf(rgbW,
                            <<DiscountOf(d, rgbW[1]), DiscountOf(d, rgbW[2]),
                              DiscountOf(d, rgbW[3])>>,
                            c, f, fl, n, FDiv(Dec(725, 1000), FPow(n, Dec(2, 10))))>>)

\* MakeViewingConditions from f on; rgbW is <<rW, gW, bW>>.
ViewingConditionsFromF(whitePoint, adaptingLuminance, backgroundLstar, rgbW, f, discountingIlluminant) ==
  ViewingConditionsFromD(rgbW, f, SurroundC(f),
                         AdaptationD(f, adaptingLuminance, discountingIlluminant),
                         LuminanceLevel(adaptingLuminance),
                         FDiv(YFromLstar(backgroundLstar), whitePoint[2]))

MakeViewingConditions(whitePoint, adaptingLuminance, backgroundLstar, surround, discountingIlluminant) ==
  ViewingConditionsFromF(whitePoint, adaptingLuminance,
                         FMax(Dec(1, 10), backgroundLstar),
                         MatrixMultiply(whitePoint, XYZToCam16RGB),
                         FAdd(Dec(8, 10), FDiv(surround, F(10))),
                         discountingIlluminant)

DefaultViewingConditionsWithBackgroundLstar(backgroundLstar) ==
  Call("DefaultViewingConditionsWithBackgroundLstar", <<backgroundLstar>>)

\* The body of DefaultViewingConditionsWithBackgroundLstar.
DefaultViewingConditionsWithBackgroundLstarBody(backgroundLstar) ==
  MakeViewingConditions(WhitePointD65,
                        FDiv(FMul(FDiv(F(200), Pi), YFromLstar(F(50))), F(100)),
                        backgroundLstar, FTwo, FALSE)

DefaultViewingConditions == DefaultViewingConditionsWithBackgroundLstar(F(50))

(***************************************************************************)
(* hct: CAM16.  A Cam16 is a record of its nine fields.                    *)
(***************************************************************************)
\* jstar, of j.
JstarOf(j) ==
  FDiv(FMul(FAdd(FOne, FMul(F(100), Dec(7, 1000))), j),
       FAdd(FOne, FMul(Dec(7, 1000), j)))

\* The Cam16 returned, of its first six fields, mstar and hueRadians.
Cam16Of(hue, c, j, q, m, s, mstar, hueRadians) ==
  Run(<<mstar, hueRadians,
        [hue |-> hue, chroma |-> c, j |-> j, q |-> q, m |-> m, s |-> s,
         jstar |-> JstarOf(j), astar |-> FMul(mstar, FCos(hueRadians)),
         bstar |-> FMul(mstar, FSin(hueRadians))]>>)

\* The Cam16 returned, of its first six fields and hueRadians.
Cam16FromM(hue, c, j, q, m, s, hueRadians) ==
  Run(<<j, q, m, s,
        Cam16Of(hue, c, j, q, m, s,
                FMul(FDiv(FOne, Dec(228, 10^4)), FLog1p(FMul(Dec(228, 10^4), m))),
                hueRadians)>>)

\* Cam16FromXyzInViewingConditions from c on.
Cam16FromChroma(hue, c, j, q, s, viewingConditions) ==
  Run(<<c, Cam16FromM(hue, c, j, q, FMul(c, viewingConditions.FlRoot), s,
                      ToRadians(hue))>>)

\* Cam16FromXyzInViewingConditions from alpha on.
Cam16FromAlpha(hue, j, alpha, viewingConditions) ==
  Run(<<alpha,
        Cam16FromChroma(
          hue, FMul(alpha, FSqrt(FDiv(j, F(100)))), j,
          FMul(FMul(FMul(FDiv(F(4), viewingConditions.C), FSqrt(FDiv(j, F(100)))),
                    FAdd(viewingConditions.Aw, F(4))),
               viewingConditions.FlRoot),
          FMul(F(50), FSqrt(FDiv(FMul(alpha, viewingConditions.C),
                                 FAdd(viewingConditions.Aw, F(4))))),
          viewingConditions)>>)

\* huePrime, of hue.
HuePrimeOf(hue) == IF FLt(hue, Dec(2014, 100)) THEN FAdd(hue, F(360)) ELSE hue

\* eHue, of the hue in radians.
EHueOf(hRad) == FMul(Dec(25, 100), FAdd(FCos(FAdd(hRad, FTwo)), Dec(38, 10)))

\* Cam16FromXyzInViewingConditions from j on.
Cam16FromJ(a, b, u, hue, j, viewingConditions) ==
  Run(<<hue, j,
        Cam16FromAlpha(
          hue, j,
          FMul(FPow(FSub(Dec(164, 100), FPow(Dec(29, 100), viewingConditions.N)),
                    Dec(73, 100)),
               FPow(FDiv(FMul(FMul(FMul(FMul(FDiv(F(50000), F(13)),
                                             EHueOf(ToRadians(HuePrimeOf(hue)))),
                                        viewingConditions.Nc),
                                   viewingConditions.Ncb),
                              FHypot(a, b)),
                         FAdd(u, Dec(305, 1000))),
                    Dec(9, 10))),
          viewingConditions)>>)

\* hue, of atanDegrees.
HueOf(atanDegrees) ==
  IF atanDegrees[1] < 0 THEN FAdd(atanDegrees, F(360))
  ELSE IF FGe(atanDegrees, F(360)) THEN FSub(atanDegrees, F(360))
  ELSE atanDegrees

\* Cam16FromXyzInViewingConditions from hue on.
Cam16FromOpponent(a, b, u, p2, viewingConditions) ==
  Run(<<a, b, u, p2,
        Cam16FromJ(a, b, u, HueOf(ToDegrees(FAtan2(b, a))),
                   FMul(F(100),
                        FPow(FDiv(FMul(p2, viewingConditions.Nbb), viewingConditions.Aw),
                             FMul(viewingConditions.C, viewingConditions.Z))),
                   viewingConditions)>>)

\* Cam16FromXyzInViewingConditions from a on.
Cam16FromAdapted(rA, gA, bA, viewingConditions) ==
  Run(<<rA, gA, bA,
        Cam16FromOpponent(
          FDiv(FAdd(FSub(FMul(F(11), rA), FMul(F(12), gA)), bA), F(11)),
          FDiv(FSub(FAdd(rA, gA), FMul(FTwo, bA)), F(9)),
          FDiv(FAdd(FAdd(FMul(F(20), rA), FMul(F(20), gA)), FMul(F(21), bA)), F(20)),
          FDiv(FAdd(FAdd(FMul(F(40), rA), FMul(F(20), gA)), bA), F(20)),
          viewingConditions)>>)

\* rA, of rD and rAF.
AdaptedOf(rD, rAF) ==
  FDiv(FMul(FMul(Signum(rD), F(400)), rAF), FAdd(rAF, Dec(2713, 100)))

\* rA, of rD.
Adapted(rD, viewingConditions) ==
  Run(<<rD, AdaptedOf(rD, FPow(FDiv(FMul(viewingConditions.Fl, FAbs(rD)), F(100)),
                               Dec(42, 100)))>>)

\* Cam16FromXyzInViewingConditions, with the matrix it multiplies by.
Cam16FromXyzBy(matrix, x, y, z, viewingConditions) ==
  Run(<<x, y, z, viewingConditions,
        Cam16FromAdapted(
          Adapted(FMul(viewingConditions.RgbD[1], MatrixRow(<<x, y, z>>, matrix[1])),
                  viewingConditions),
          Adapted(FMul(viewingConditions.RgbD[2], MatrixRow(<<x, y, z>>, matrix[2])),
                  viewingConditions),
          Adapted(FMul(viewingConditions.RgbD[3], MatrixRow(<<x, y, z>>, matrix[3])),
                  viewingConditions),
          viewingConditions)>>)

Cam16FromXyzInViewingConditions(x, y, z, viewingConditions) ==
  Call("Cam16FromXyzInViewingConditions", <<x, y, z, viewingConditions>>)

\* The body of Cam16FromXyzInViewingConditions.
Cam16FromXyzInViewingConditionsBody(x, y, z, viewingConditions) ==
  Cam16FromXyzBy(XYZToCam16RGB, x, y, z, viewingConditions)

\* Cam16FromIntInViewingConditions from x on.
Cam16FromLinear(redL, greenL, blueL, viewingConditions) ==
  Run(<<redL, greenL, blueL,
        Cam16FromXyzInViewingConditions(
          FAdd(FAdd(FMul(Dec(41233895, 10^8), redL), FMul(Dec(35762064, 10^8), greenL)),
               FMul(Dec(18051042, 10^8), blueL)),
          FAdd(FAdd(FMul(Dec(2126, 10^4), redL), FMul(Dec(7152, 10^4), greenL)),
               FMul(Dec(722, 10^4), blueL)),
          FAdd(FAdd(FMul(Dec(1932141, 10^8), redL), FMul(Dec(11916382, 10^8), greenL)),
               FMul(Dec(95034478, 10^8), blueL)),
          viewingConditions)>>)

Cam16FromIntInViewingConditions(argb, viewingConditions) ==
  Call("Cam16FromIntInViewingConditions", <<argb, viewingConditions>>)

\* The body of Cam16FromIntInViewingConditions.
Cam16FromIntInViewingConditionsBody(argb, viewingConditions) ==
  Cam16FromLinear(Linearized(Small(Shr(And(argb, <<255, 0>>), 16))),
                  Linearized(Small(Shr(And(argb, <<0, 65280>>), 8))),
                  Linearized(Small(And(argb, <<0, 255>>))),
                  viewingConditions)

Cam16FromInt(argb) == Call("Cam16FromInt", <<argb>>)

\* The body of Cam16FromInt.
Cam16FromIntBody(argb) ==
  Cam16FromIntInViewingConditions(argb, DefaultViewingConditions)

cam16FromJchInViewingConditions(j, c, h, viewingConditions) ==
  Run(<<j, c, h,
        Cam16FromM(
          h, c, j,
          FMul(FMul(FMul(FDiv(F(4), viewingConditions.C), FSqrt(FDiv(j, F(100)))),
                    FAdd(viewingConditions.Aw, F(4))),
               FSqrt(viewingConditions.Fl)),
          FMul(c, FSqrt(viewingConditions.Fl)),
          FMul(F(50),
               FSqrt(FDiv(FMul(FDiv(c, FSqrt(FDiv(j, F(100)))), viewingConditions.C),
                          FAdd(viewingConditions.Aw, F(4))))),
          FDiv(FMul(Pi, h), F(180)))>>)

Cam16FromJch(j, c, h) ==
  cam16FromJchInViewingConditions(j, c, h, DefaultViewingConditions)

\* rC, of rA and rCBase.
InverseAdaptedOf(rA, rCBase, viewingConditions) ==
  FMul(FMul(Signum(rA), FDiv(F(100), viewingConditions.Fl)),
       FPow(rCBase, FDiv(FOne, Dec(42, 100))))

\* rC, of rA.
InverseAdapted(rA, viewingConditions) ==
  Run(<<rA, InverseAdaptedOf(rA,
                             FMax(FZero, FDiv(FMul(Dec(2713, 100), FAbs(rA)),
                                              FSub(F(400), FAbs(rA)))),
                             viewingConditions)>>)

\* XyzInViewingConditions from rA on.
XyzFromOpponent(p2, a, b, viewingConditions) ==
  Run(<<a, b,
        MatrixMultiply(
          << FDiv(InverseAdapted(
                    FDiv(FAdd(FAdd(FMul(F(460), p2), FMul(F(451), a)), FMul(F(288), b)),
                         F(1403)),
                    viewingConditions),
                  viewingConditions.RgbD[1]),
             FDiv(InverseAdapted(
                    FDiv(FSub(FSub(FMul(F(460), p2), FMul(F(891), a)), FMul(F(261), b)),
                         F(1403)),
                    viewingConditions),
                  viewingConditions.RgbD[2]),
             FDiv(InverseAdapted(
                    FDiv(FSub(FSub(FMul(F(460), p2), FMul(F(220), a)), FMul(F(6300), b)),
                         F(1403)),
                    viewingConditions),
                  viewingConditions.RgbD[3]) >>,
          CAM16RGBToXYZ)>>)

\* XyzInViewingConditions from a on.
XyzFromGamma(gamma, p2, hSin, hCos, viewingConditions) ==
  Run(<<gamma, XyzFromOpponent(p2, FMul(gamma, hCos), FMul(gamma, hSin),
                               viewingConditions)>>)

\* XyzInViewingConditions from gamma on.
XyzFromTrig(t, p1, p2, hSin, hCos, viewingConditions) ==
  Run(<<p1, hSin, hCos,
        XyzFromGamma(
          FDiv(FMul(FMul(F(23), FAdd(p2, Dec(305, 1000))), t),
               FAdd(FAdd(FMul(F(23), p1), FMul(FMul(F(11), t), hCos)),
                    FMul(FMul(F(108), t), hSin))),
          p2, hSin, hCos, viewingConditions)>>)

\* XyzInViewingConditions from eHue on.
XyzFromT(t, hRad, ac, viewingConditions) ==
  Run(<<t, hRad, ac,
        XyzFromTrig(t,
                    FMul(FMul(FMul(EHueOf(hRad), FDiv(F(50000), F(13))),
                              viewingConditions.Nc),
                         viewingConditions.Ncb),
                    FDiv(ac, viewingConditions.Nbb),
                    FSin(hRad), FCos(hRad), viewingConditions)>>)

\* A faulty alpha, which is the chroma where the division is not made.
AlphaOfChroma(cam) ==
  IF cam.chroma[1] # 0 /\ cam.j[1] # 0
  THEN FDiv(cam.chroma, FSqrt(FDiv(cam.j, F(100))))
  ELSE cam.chroma

\* alpha.
AlphaOf(cam) ==
  IF cam.chroma[1] # 0 /\ cam.j[1] # 0
  THEN FDiv(cam.chroma, FSqrt(FDiv(cam.j, F(100))))
  ELSE FZero

XyzInViewingConditions(cam, viewingConditions) ==
  Call("XyzInViewingConditions", <<cam, viewingConditions>>)

\* The body of XyzInViewingConditions.
XyzInViewingConditionsBody(cam, viewingConditions) ==
  Run(<<cam, viewingConditions,
        XyzFromT(
          FPow(FDiv(AlphaOf(cam),
                    FPow(FSub(Dec(164, 100), FPow(Dec(29, 100), viewingConditions.N)),
                         Dec(73, 100))),
               FDiv(FOne, Dec(9, 10))),
          FDiv(FMul(Pi, cam.hue), F(180)),
          FMul(viewingConditions.Aw,
               FPow(FDiv(cam.j, F(100)),
                    FDiv(FOne, FMul(viewingConditions.C, viewingConditions.Z)))),
          viewingConditions)>>)

\* ArgbFromXyz of the array xyz.
ArgbFromXyzArray(xyz) == Run(<<xyz, ArgbFromXyz(xyz[1], xyz[2], xyz[3])>>)

Viewed(cam, viewingConditions) == Call("Viewed", <<cam, viewingConditions>>)

\* The body of Viewed.
ViewedBody(cam, viewingConditions) ==
  ArgbFromXyzArray(XyzInViewingConditions(cam, viewingConditions))

Cam16ToInt(cam) == Viewed(cam, DefaultViewingConditions)

(***************************************************************************)
(* The inputs the model draws.                                             *)
(***************************************************************************)
MaxHue == 2
MaxChroma == 2
MaxTone == 2
CompSlack == 1
MaxCalls == 2

\* Hues below 0, inside [0, 360) and from 360 on.
Hues == {F(240 * i - 120) : i \in 0..MaxHue}

\* Chroma 0 (a grey), a chroma every hue reaches, and chromas beyond.
Chromas == {F(48 * i) : i \in 0..MaxChroma}

\* The integer tones asked of a palette: both ends and tones between.
Tones == {0, 100} \cup {20 * i : i \in 1..MaxTone}

\* The tones asked as float64.
ToneDoubles == {F(t) : t \in Tones \cup {50}} \cup {Dec(505, 10)}

\* The seed colour of the repository's tests, 0xFF0000FF.
Seeds == {<<65280, 255>>}

\* Colour components around the ends of a byte, below 0 and above 255.
Components ==
  UNION {(c - CompSlack)..(c + CompSlack) : c \in {-256, 0, 255, 511}}

\* The components of a byte.
Bytes == 0..255

\* ARGB values, of alpha byte 0, 128 and 255.
Argbs ==
  {<<alpha * 256 + red, green * 256 + blue>> :
     alpha \in {0, 128, 255}, red \in Components \cap Bytes,
     green \in Components \cap Bytes, blue \in Components \cap Bytes}

(***************************************************************************)
(* hct: the solver.  solveToInt is called by hct.go; its contract and      *)
(* algorithm are those of the specification's section 4.5: the hue is      *)
(* sanitised; a near-achromatic request is the grey ArgbFromLstar(tone);   *)
(* otherwise the chroma is searched by bisection in [0, requested chroma]   *)
(* for the highest chroma whose colour lies in the sRGB gamut, with the J  *)
(* derived from the tone through the achromatic path; the J of the chroma  *)
(* found is then iterated until the colour's Y is that of the tone, and    *)
(* the channels are clamped as they are delinearised.                      *)
(***************************************************************************)
\* The CAM16 lightness J of the grey of luminance y.
JFromY(y, whitePoint, viewingConditions) ==
  Cam16FromXyzInViewingConditions(FDiv(FMul(y, whitePoint[1]), F(100)), y,
                                  FDiv(FMul(y, whitePoint[3]), F(100)),
                                  viewingConditions).j

\* The linear sRGB channels of the colour of lightness j, chroma c and hue h.
LinrgbFromJch(j, c, h, viewingConditions) ==
  MatrixMultiply(XyzInViewingConditions([j |-> j, chroma |-> c, hue |-> h],
                                        viewingConditions),
                 xyzToSrgb)

\* Every channel delinearises into [0, 255]: it lies in [0, 100].
InGamut(linrgb) ==
  \A i \in 1..3 : linrgb[i][1] >= 0 /\ FLe(linrgb[i], F(100))

\* The highest chroma in [lo, hi] found in gamut, to the chroma tolerance,
\* trying the chroma c first; lo is in gamut.
RECURSIVE GamutChroma(_, _, _, _, _, _)
GamutChroma(j, h, lo, hi, c, viewingConditions) ==
  IF InGamut(LinrgbFromJch(j, c, h, viewingConditions))
  THEN (IF c = hi \/ FLt(FSub(hi, c), Dec(4, 10)) THEN c
        ELSE GamutChroma(j, h, c, hi, FMul(FHalf, FAdd(c, hi)), viewingConditions))
  ELSE (IF FLt(FSub(c, lo), Dec(4, 10)) THEN lo
        ELSE GamutChroma(j, h, lo, c, FMul(FHalf, FAdd(lo, c)), viewingConditions))

\* The lightness j corrected towards the luminance y, the colour of
\* lightness j having the luminance fnj.
JStep(j, fnj, y) ==
  IF fnj[1] <= 0 THEN j
  ELSE FSub(j, FDiv(FMul(FSub(fnj, y), j), FMul(FTwo, fnj)))

\* The lightness of the colour of luminance y, chroma c and hue h, iterated
\* n times from j.
RECURSIVE RefineJ(_, _, _, _, _, _)
RefineJ(j, y, c, h, n, viewingConditions) ==
  IF n < 1 THEN j
  ELSE Run(<<j, RefineJ(JStep(j, XyzInViewingConditions(
                                   [j |-> j, chroma |-> c, hue |-> h],
                                   viewingConditions)[2], y),
                        y, c, h, n - 1, viewingConditions)>>)

\* The colour of luminance y, hue h and chroma c.
SolveAtChroma(h, c, y, j0, viewingConditions) ==
  Run(<<c, ArgbFromLinrgb(LinrgbFromJch(RefineJ(j0, y, c, h, 3, viewingConditions),
                                        c, h, viewingConditions))>>)

\* The colour of luminance y and hue h, of the chroma nearest to the one
\* requested; j0 is the lightness of the grey of luminance y.
SolveFromJ(h, chroma, y, j0, viewingConditions) ==
  Run(<<j0, SolveAtChroma(h, GamutChroma(j0, h, FZero, chroma, chroma, viewingConditions),
                          y, j0, viewingConditions)>>)

SolveIn(h, chroma, y, viewingConditions) ==
  Run(<<h, y, viewingConditions,
        SolveFromJ(h, chroma, y, JFromY(y, WhitePointD65, viewingConditions),
                   viewingConditions)>>)

HctSolve(hueDegrees, chroma, lstar) ==
  Call("HctSolve", <<hueDegrees, chroma, lstar>>)

\* The body of HctSolve.
HctSolveBody(hueDegrees, chroma, lstar) ==
  IF \/ FLt(chroma, Dec(1, 10^6))
     \/ FLe(lstar, Dec(1, 10^6))
     \/ FGe(lstar, FSub(F(100), Dec(1, 10^6)))
  THEN ArgbFromLstar(lstar)
  ELSE SolveIn(SanitizeDegreesDouble(hueDegrees), chroma, YFromLstar(lstar),
               DefaultViewingConditions)

\* The hue and chroma of the palettes the model builds, and the requests
\* their tones make of the solver.
PaletteHueChromas ==
  (Hues \X Chromas)
    \cup {<<Cam16FromInt(argb).hue, Cam16FromInt(argb).chroma>> : argb \in Seeds}

SolverRequests == {<<p[1], p[2], t>> : p \in PaletteHueChromas, t \in ToneDoubles}

\* The solver is a pure function: its answers to the requests above are
\* computed once.
SolverAnswers == [r \in SolverRequests |-> HctSolve(r[1], r[2], r[3])]

solveToInt(hue, chroma, tone) == Call("solveToInt", <<hue, chroma, tone>>)

\* The body of solveToInt.
solveToIntBody(hue, chroma, tone) ==
  IF <<hue, chroma, tone>> \in SolverRequests
  THEN SolverAnswers[<<hue, chroma, tone>>]
  ELSE HctSolve(hue, chroma, tone)

(***************************************************************************)
(* hct: Hct.  An Hct is a record of its four fields.                       *)
(***************************************************************************)
NewHct(hue, chroma, tone) == Call("NewHct", <<hue, chroma, tone>>)

\* The body of NewHct.
NewHctBody(hue, chroma, tone) ==
  [hue |-> hue, chroma |-> chroma, tone |-> tone,
   argb |-> solveToInt(hue, chroma, tone)]

\* The Hct h with the hue and chroma of cam, the tone and the argb.
HctOf(h, cam, tone, argb) ==
  Run(<<cam, [h EXCEPT !.hue = cam.hue, !.chroma = cam.chroma, !.tone = tone,
                       !.argb = argb]>>)

\* A faulty setInternalState, which leaves the tone as it was.
setInternalStateWithoutTone(h, argb) ==
  Run(<<argb, HctOf(h, Cam16FromInt(argb), h.tone, argb)>>)

\* The Hct h after h.setInternalState(argb).
setInternalState(h, argb) == Call("setInternalState", <<h, argb>>)

\* The body of setInternalState.
setInternalStateBody(h, argb) ==
  Run(<<argb, HctOf(h, Cam16FromInt(argb), LstarFromArgb(argb), argb)>>)

\* &Hct{}: the zero value.
ZeroHct == [hue |-> FZero, chroma |-> FZero, tone |-> FZero, argb |-> W(0)]

NewHctFromInt(argb) == Call("NewHctFromInt", <<argb>>)

\* The body of NewHctFromInt.
NewHctFromIntBody(argb) == setInternalState(ZeroHct, argb)

GetHue(h) == h.hue

GetChroma(h) == h.chroma

GetTone(h) == h.tone

ToInt(h) == h.argb

\* The Hct h after h.SetHue(newHue).
SetHue(h, newHue) == Call("SetHue", <<h, newHue>>)

\* The body of SetHue.
SetHueBody(h, newHue) ==
  setInternalState(h, solveToInt(newHue, h.chroma, h.tone))

\* The Hct h after h.SetChroma(newChroma).
SetChroma(h, newChroma) == Call("SetChroma", <<h, newChroma>>)

\* The body of SetChroma.
SetChromaBody(h, newChroma) ==
  setInternalState(h, solveToInt(h.hue, newChroma, h.tone))

\* The Hct h after h.SetTone(newTone).
SetTone(h, newTone) == Call("SetTone", <<h, newTone>>)

\* The body of SetTone.
SetToneBody(h, newTone) ==
  setInternalState(h, solveToInt(h.hue, h.chroma, newTone))

\* InViewingConditions from the return on.
HctFromRecast(recastInVc, tone) ==
  Run(<<recastInVc, NewHct(recastInVc.hue, recastInVc.chroma, tone)>>)

\* InViewingConditions from recastInVc on.
HctFromViewed(viewedInVc) ==
  Run(<<viewedInVc,
        HctFromRecast(Cam16FromXyzInViewingConditions(
                        viewedInVc[1], viewedInVc[2], viewedInVc[3],
                        DefaultViewingConditions),
                      LstarFromY(viewedInVc[2]))>>)

InViewingConditions(h, vc) == Call("InViewingConditions", <<h, vc>>)

\* The body of InViewingConditions.
InViewingConditionsBody(h, vc) ==
  HctFromViewed(XyzInViewingConditions(Cam16FromInt(ToInt(h)), vc))

(***************************************************************************)
(* palettes: TonalPalette.  A TonalPalette is a record of its four fields; *)
(* its cache is a function from the tones it holds to their ARGB.          *)
(***************************************************************************)
\* The smallest delta and its Hct after the candidate of delta
\* candidateDelta.
SmallestOf(candidate, candidateDelta, smallestDelta, smallestDeltaHct) ==
  IF FLt(candidateDelta, smallestDelta) THEN <<candidateDelta, candidate>>
  ELSE <<smallestDelta, smallestDeltaHct>>

\* The smallest delta and its Hct after the candidate.
Smallest(candidate, chroma, smallestDelta, smallestDeltaHct) ==
  Run(<<candidate,
        SmallestOf(candidate, FAbs(FSub(GetChroma(candidate), chroma)),
                   smallestDelta, smallestDeltaHct)>>)

RECURSIVE createKeyColorLoop(_, _, _, _, _)

\* The loop of createKeyColor after the iteration of delta.
createKeyColorNext(hue, chroma, delta, smallest) ==
  Run(<<smallest,
        createKeyColorLoop(hue, chroma, delta + 1, smallest[1], smallest[2])>>)

\* The iteration of delta, after hctAdd.
createKeyColorSubtract(hue, chroma, delta, smallest) ==
  Run(<<smallest,
        createKeyColorNext(hue, chroma, delta,
                           Smallest(NewHct(hue, chroma, F(50 - delta)), chroma,
                                    smallest[1], smallest[2]))>>)

\* The loop of createKeyColor, from the given delta on.
createKeyColorLoop(hue, chroma, delta, smallestDelta, smallestDeltaHct) ==
  IF delta >= 50 THEN smallestDeltaHct
  ELSE IF FRound(chroma) = FRound(GetChroma(smallestDeltaHct)) THEN smallestDeltaHct
  ELSE createKeyColorSubtract(hue, chroma, delta,
                              Smallest(NewHct(hue, chroma, F(50 + delta)), chroma,
                                       smallestDelta, smallestDeltaHct))

\* createKeyColor from smallestDelta on.
createKeyColorFrom(hue, chroma, smallestDeltaHct) ==
  Run(<<smallestDeltaHct,
        createKeyColorLoop(hue, chroma, 1,
                           FAbs(FSub(GetChroma(smallestDeltaHct), chroma)),
                           smallestDeltaHct)>>)

createKeyColor(hue, chroma) == Call("createKeyColor", <<hue, chroma>>)

\* The body of createKeyColor.
createKeyColorBody(hue, chroma) ==
  createKeyColorFrom(hue, chroma, NewHct(hue, chroma, F(50)))

NewTonalPaletteFromHueChroma(hue, chroma) ==
  Call("NewTonalPaletteFromHueChroma", <<hue, chroma>>)

\* The body of NewTonalPaletteFromHueChroma.
NewTonalPaletteFromHueChromaBody(hue, chroma) ==
  [cache |-> <<>>, keyColor |-> createKeyColor(hue, chroma), hue |-> hue,
   chroma |-> chroma]

NewTonalPaletteFromHct(h) ==
  NewTonalPaletteFromHueChroma(GetHue(h), GetChroma(h))

NewTonalPaletteFromInt(argb) == Call("NewTonalPaletteFromInt", <<argb>>)

\* The body of NewTonalPaletteFromInt.
NewTonalPaletteFromIntBody(argb) == NewTonalPaletteFromHct(NewHctFromInt(argb))

(***************************************************************************)
(* palettes: CorePalette.                                                  *)
(***************************************************************************)
\* The CorePalette of a content palette: the six palettes first assigned.
CorePaletteOfContent(hue, chroma) ==
  [A1 |-> NewTonalPaletteFromHueChroma(hue, chroma),
   A2 |-> NewTonalPaletteFromHueChroma(hue, FDiv(chroma, F(3))),
   A3 |-> NewTonalPaletteFromHueChroma(FAdd(hue, F(60)), FDiv(chroma, F(2))),
   N1 |-> NewTonalPaletteFromHueChroma(hue, FMin(FDiv(chroma, F(12)), F(4))),
   N2 |-> NewTonalPaletteFromHueChroma(hue, FMin(FDiv(chroma, F(6)), F(8))),
   Error |-> NewTonalPaletteFromHueChroma(F(25), F(84))]

\* The CorePalette that is not a content palette: A1, A2, A3, N1 and N2
\* are assigned again, Error is the palette first assigned.
CorePaletteOf(hue, chroma) ==
  [A1 |-> NewTonalPaletteFromHueChroma(hue, FMax(F(48), chroma)),
   A2 |-> NewTonalPaletteFromHueChroma(hue, F(16)),
   A3 |-> NewTonalPaletteFromHueChroma(FAdd(hue, F(60)), F(24)),
   N1 |-> NewTonalPaletteFromHueChroma(hue, F(4)),
   N2 |-> NewTonalPaletteFromHueChroma(hue, F(8)),
   Error |-> NewTonalPaletteFromHueChroma(F(25), F(84))]

\* newCorePalette of the hue and chroma of Cam16FromInt(argb).
newCorePaletteFrom(cam, isContent) ==
  IF isContent THEN CorePaletteOfContent(cam.hue, cam.chroma)
  ELSE CorePaletteOf(cam.hue, cam.chroma)

\* A faulty newCorePalette, which raises the chroma of A1 to 48 in a
\* content palette too.
newCorePaletteRaising(argb, isContent) ==
  [newCorePaletteFrom(Cam16FromInt(argb), isContent) EXCEPT
     !.A1 = NewTonalPaletteFromHueChroma(
              Cam16FromInt(argb).hue, FMax(F(48), Cam16FromInt(argb).chroma))]

newCorePalette(argb, isContent) == Call("newCorePalette", <<argb, isContent>>)

\* The body of newCorePalette.
newCorePaletteBody(argb, isContent) ==
  newCorePaletteFrom(Cam16FromInt(argb), isContent)

NewCorePaletteFromInt(argb) == newCorePalette(argb, FALSE)

NewContentCorePaletteFromInt(argb) == newCorePalette(argb, TRUE)

\* The values that int(r) may take for a float64 r of 2^63 or more in
\* magnitude, where the conversion depends on the build: the smallest int
\* (amd64, for either sign, and every build for a negative r), or the
\* largest int for a positive r where the conversion saturates (arm64).
Conversions(r) == IF r[1] < 0 THEN {"min"} ELSE {"min", "max"}

\* ClampInt(0, 255, int(r)) for a float64 r with an integer value, of any
\* size: the int is exact below 2^63, and beyond 2^30 it is outside
\* 0 .. 255 on the side of its sign.
ClampedIntOf(r, converted) ==
  IF FLt(FAbs(r), F(2^30)) THEN ClampInt(0, 255, FRound(r))
  ELSE IF FLt(FAbs(r), <<P27, 36>>) THEN (IF r[1] < 0 THEN 0 ELSE 255)
  ELSE IF converted = "min" THEN 0 ELSE 255

\* Delinearized of a component of any size, int(r) taking the value
\* converted where it depends on the build.
DelinearizedAny(rgbComponent, converted) ==
  ClampedIntOf(FMul(DelinearizedOf(FDiv(rgbComponent, F(100))), F(255)),
               converted)


(***************************************************************************)
(* Natural numbers of any size.  A number is the sequence of its digits    *)
(* in base 2^15, the least significant first, the last digit not 0; the    *)
(* empty sequence is 0.                                                    *)
(***************************************************************************)
P15 == 2^15

\* Digit i of a, 0 beyond its length.
Limb(a, i) == IF i <= Len(a) THEN a[i] ELSE 0

\* a without the zero digits at its end.
RECURSIVE BTrim(_)
BTrim(a) ==
  IF Len(a) = 0 THEN a
  ELSE IF a[Len(a)] = 0 THEN BTrim(SubSeq(a, 1, Len(a) - 1))
  ELSE a

\* The number of an int n, 0 <= n < 2^31.
BOf(n) == BTrim(<<n % P15, (n \div P15) % P15, n \div (P15 * P15)>>)

\* a + b from digit i on, with the carry c.
RECURSIVE BAddFrom(_, _, _, _)
BAddFrom(a, b, i, c) ==
  IF i > Len(a) /\ i > Len(b) THEN (IF c = 0 THEN <<>> ELSE <<c>>)
  ELSE <<(Limb(a, i) + Limb(b, i) + c) % P15>>
         \o BAddFrom(a, b, i + 1, (Limb(a, i) + Limb(b, i) + c) \div P15)

BAdd(a, b) == BAddFrom(a, b, 1, 0)

\* a - b from digit i on, with the borrow c, for a >= b.
RECURSIVE BSubFrom(_, _, _, _)
BSubFrom(a, b, i, c) ==
  IF i > Len(a) THEN <<>>
  ELSE <<(a[i] - Limb(b, i) - c) % P15>>
         \o BSubFrom(a, b, i + 1, IF a[i] - Limb(b, i) - c < 0 THEN 1 ELSE 0)

BSub(a, b) == BTrim(BSubFrom(a, b, 1, 0))

\* a < b, for a and b of equal length that agree above digit i.
RECURSIVE BLessFrom(_, _, _)
BLessFrom(a, b, i) ==
  IF i = 0 THEN FALSE
  ELSE IF a[i] # b[i] THEN a[i] < b[i]
  ELSE BLessFrom(a, b, i - 1)

BLess(a, b) ==
  IF Len(a) # Len(b) THEN Len(a) < Len(b) ELSE BLessFrom(a, b, Len(a))

\* a * k from digit i on, with the carry c, for 0 < k <= 2^15.
RECURSIVE BMulSmallFrom(_, _, _, _)
BMulSmallFrom(a, k, i, c) ==
  IF i > Len(a) THEN (IF c = 0 THEN <<>> ELSE <<c>>)
  ELSE <<(a[i] * k + c) % P15>>
         \o BMulSmallFrom(a, k, i + 1, (a[i] * k + c) \div P15)

BMulSmall(a, k) == IF k = 0 THEN <<>> ELSE BMulSmallFrom(a, k, 1, 0)

Zeros(n) == [i \in 1..n |-> 0]

\* The digits i and above of a, times b.
RECURSIVE BMulFrom(_, _, _)
BMulFrom(a, b, i) ==
  IF i > Len(a) THEN <<>>
  ELSE BAdd(Zeros(i - 1) \o BMulSmall(b, a[i]), BMulFrom(a, b, i + 1))

BMul(a, b) == BTrim(BMulFrom(a, b, 1))

\* a * 2^n.
BShl(a, n) ==
  IF Len(a) = 0 THEN a ELSE Zeros(n \div 15) \o BMulSmall(a, 2^(n % 15))

\* a \div 2^r, for r < 15.
BShrBits(a, r) ==
  BTrim([i \in 1..Len(a) |->
           (a[i] \div 2^r) + (Limb(a, i + 1) % 2^r) * 2^(15 - r)])

\* a \div 2^n.
BShr(a, n) ==
  IF n \div 15 >= Len(a) THEN <<>>
  ELSE BShrBits(SubSeq(a, (n \div 15) + 1, Len(a)), n % 15)

\* Bit n of a, bit 0 the least significant.
BBit(a, n) == (Limb(a, (n \div 15) + 1) \div 2^(n % 15)) % 2

\* The bits of a below bit n are all 0.
BLowZero(a, n) ==
  /\ \A i \in 1..(n \div 15) : Limb(a, i) = 0
  /\ Limb(a, (n \div 15) + 1) % 2^(n % 15) = 0

\* The number of bits of a.
BBitLen(a) == IF Len(a) = 0 THEN 0 ELSE 15 * (Len(a) - 1) + BitLen(a[Len(a)])

(***************************************************************************)
(* float64 to the bit.  A number is <<s, m, e>>, standing for s * m * 2^e  *)
(* with s the sign 1 or -1 and m a natural number, 0 or 2^52 <= m < 2^53.  *)
(* The four operations round to the nearest number, to the even one of     *)
(* two that are equally near, as IEEE 754 defines them; the numbers of the *)
(* functions modelled with them stay far from overflow and underflow.      *)
(***************************************************************************)
P52 == <<0, 0, 0, 128>>
P53 == <<0, 0, 0, 256>>

DZero == <<1, <<>>, 0>>

\* <<s, q, e>> with q one more when up, for q of 53 bits.
DRoundUp(s, q, e, up) ==
  IF ~up THEN <<s, q, e>>
  ELSE IF BAdd(q, <<1>>) = P53 THEN <<s, P52, e + 1>>
  ELSE <<s, BAdd(q, <<1>>), e>>

\* The float64 nearest to s * (m + f) * 2^e, for m of n bits and a
\* fraction f that is 0, or is in (0, 1) when sticky.
DRoundOf(s, m, e, sticky, n) ==
  IF n = 0 THEN DZero
  ELSE IF n <= 53 THEN <<s, BShl(m, 53 - n), e - (53 - n)>>
  ELSE DRoundUp(s, BShr(m, n - 53), e + (n - 53),
                /\ BBit(m, n - 54) = 1
                /\ \/ ~BLowZero(m, n - 54)
                   \/ sticky
                   \/ BBit(m, n - 53) = 1)

DRound(s, m, e, sticky) == DRoundOf(s, m, e, sticky, BBitLen(m))

\* The float64 of an int.
D(n) == DRound(IF n < 0 THEN -1 ELSE 1, BOf(Abs(n)), 0, FALSE)

DNeg(x) == <<-x[1], x[2], x[3]>>

DMul(x, y) ==
  IF Len(x[2]) = 0 \/ Len(y[2]) = 0 THEN <<x[1] * y[1], <<>>, 0>>
  ELSE DRound(x[1] * y[1], BMul(x[2], y[2]), x[3] + y[3], FALSE)

\* The quotient q and the remainder r of a division, k bits of the
\* quotient still to find: <<q, r>> at the end.  The test of the length
\* of q has its digits computed at every step.
RECURSIVE DivBits(_, _, _, _)
DivBits(r, b, q, k) ==
  IF k = 0 \/ Len(q) > 4 THEN <<q, r>>
  ELSE IF BLess(r, b)
  THEN DivBits(BMulSmall(r, 2), b, BMulSmall(q, 2), k - 1)
  ELSE DivBits(BMulSmall(BSub(r, b), 2), b,
               BAdd(BMulSmall(q, 2), <<1>>), k - 1)

\* x / y from the 56 bits of the quotient of the mantissas.
DDivOf(x, y, qr) == DRound(x[1] * y[1], qr[1], x[3] - y[3] - 55, Len(qr[2]) # 0)

\* x / y, for y # 0.
DDiv(x, y) ==
  IF Len(x[2]) = 0 THEN <<x[1] * y[1], <<>>, 0>>
  ELSE DDivOf(x, y, DivBits(x[2], y[2], <<>>, 56))

\* s * a * 2^e + t * b * 2^e, for natural numbers a and b.
DAddAligned(s, a, t, b, e) ==
  IF s = t THEN DRound(s, BAdd(a, b), e, FALSE)
  ELSE IF BLess(a, b) THEN DRound(t, BSub(b, a), e, FALSE)
  ELSE DRound(s, BSub(a, b), e, FALSE)

\* x + y.  A term more than 120 binary places below the other is below
\* half a unit of its last place.
DAdd(x, y) ==
  IF Len(x[2]) = 0 THEN y
  ELSE IF Len(y[2]) = 0 THEN x
  ELSE IF x[3] - y[3] > 120 THEN x
  ELSE IF y[3] - x[3] > 120 THEN y
  ELSE IF x[3] >= y[3]
  THEN DAddAligned(x[1], BShl(x[2], x[3] - y[3]), y[1], y[2], y[3])
  ELSE DAddAligned(x[1], x[2], y[1], BShl(y[2], y[3] - x[3]), x[3])

DSub(x, y) == DAdd(x, DNeg(y))

\* x > y: the difference of two float64 that differ is not 0.
DGt(x, y) == Len(DSub(x, y)[2]) # 0 /\ DSub(x, y)[1] = 1

DAbs(x) == <<1, x[2], x[3]>>

\* The largest r + d with d < 2^(k+1) whose cube is at most n.
RECURSIVE CbrtBits(_, _, _)
CbrtBits(n, r, k) ==
  IF k < 0 THEN r
  ELSE IF BLess(n, BMul(BAdd(r, BShl(<<1>>, k)),
                        BMul(BAdd(r, BShl(<<1>>, k)), BAdd(r, BShl(<<1>>, k)))))
  THEN CbrtBits(n, r, k - 1)
  ELSE CbrtBits(n, BAdd(r, BShl(<<1>>, k)), k - 1)

\* The float64 nearest to the cube root of m * 2^(3 * e), of its integer
\* part r.
DCbrtOf(m, e, r) == DRound(1, r, e, BMul(r, BMul(r, r)) # m)

\* The float64 nearest to the cube root of x > 0: the cube root of
\* x[2] * 2^s * 2^(x[3] - s), for s of 110 to 112 with x[3] - s a multiple
\* of 3.
DCbrt(x) ==
  DCbrtOf(BShl(x[2], 110 + ((x[3] - 110) % 3)),
          (x[3] - 110 - ((x[3] - 110) % 3)) \div 3,
          CbrtBits(BShl(x[2], 110 + ((x[3] - 110) % 3)), <<>>, 55))

\* x moved by k units of its last place.
DNudge(x, k) ==
  IF k >= 0 THEN DRound(x[1], BAdd(x[2], BOf(k)), x[3], FALSE)
  ELSE DRound(x[1], BSub(x[2], BOf(-k)), x[3], FALSE)

\* math.Pow(x, 3.0): yi is 3 and yf is 0, so the loop multiplies 1 by x1,
\* squares x1 and multiplies by the square; the powers of two that
\* math.Frexp took out and math.Ldexp puts back change no mantissa.
DPow3(x) == DMul(x, DMul(x, x))

\* math.Pow(x, 1.0 / 3.0), for x > 0: yi is 0 and yf is 1/3 rounded, so the
\* result is math.Exp(yf * math.Log(x)), which is the cube root of x to
\* within a few units of the last place; which of them depends on the
\* build (math.Exp is written in assembly for some), so the result is the
\* float64 nearest to the cube root moved by slack units.
DPowThird(x, slack) == DNudge(DCbrt(x), slack)

\* x * y + z rounded once, as a fused multiply-add computes it.
DFma(x, y, z) ==
  IF Len(x[2]) = 0 \/ Len(y[2]) = 0 THEN z
  ELSE IF Len(z[2]) = 0 THEN DMul(x, y)
  ELSE IF x[3] + y[3] >= z[3]
  THEN DAddAligned(x[1] * y[1], BShl(BMul(x[2], y[2]), x[3] + y[3] - z[3]),
                   z[1], z[2], z[3])
  ELSE DAddAligned(x[1] * y[1], BMul(x[2], y[2]),
                   z[1], BShl(z[2], z[3] - x[3] - y[3]), x[3] + y[3])

\* x * y + z as the compiler may build it: fused on the architectures
\* that have the instruction, a rounded product and a sum on the others.
DMulAdd(x, y, z, fused) ==
  IF fused THEN DFma(x, y, z) ELSE DAdd(DMul(x, y), z)
(***************************************************************************)
(* The call of a function, by its body.                                    *)
(***************************************************************************)
Call(f, args) ==
  CASE f = "FLn" -> FLnBody(args[1])
    [] f = "FExp" -> FExpBody(args[1])
    [] f = "FPow" -> FPowBody(args[1], args[2])
    [] f = "FSqrt" -> FSqrtBody(args[1])
    [] f = "FCbrt" -> FCbrtBody(args[1])
    [] f = "FHypot" -> FHypotBody(args[1], args[2])
    [] f = "FLog1p" -> FLog1pBody(args[1])
    [] f = "FSin" -> FSinBody(args[1])
    [] f = "FCos" -> FCosBody(args[1])
    [] f = "FAtan2" -> FAtan2Body(args[1], args[2])
    [] f = "FMod" -> FModBody(args[1], args[2])
    [] f = "MatrixMultiply" -> MatrixMultiplyBody(args[1], args[2])
    [] f = "Linearized" -> LinearizedBody(args[1])
    [] f = "Delinearized" -> DelinearizedBody(args[1])
    [] f = "ArgbFromLstar" -> ArgbFromLstarBody(args[1])
    [] f = "LstarFromArgb" -> LstarFromArgbBody(args[1])
    [] f = "YFromLstar" -> YFromLstarBody(args[1])
    [] f = "DefaultViewingConditionsWithBackgroundLstar" -> DefaultViewingConditionsWithBackgroundLstarBody(args[1])
    [] f = "Cam16FromXyzInViewingConditions" -> Cam16FromXyzInViewingConditionsBody(args[1], args[2], args[3], args[4])
    [] f = "Cam16FromIntInViewingConditions" -> Cam16FromIntInViewingConditionsBody(args[1], args[2])
    [] f = "Cam16FromInt" -> Cam16FromIntBody(args[1])
    [] f = "XyzInViewingConditions" -> XyzInViewingConditionsBody(args[1], args[2])
    [] f = "Viewed" -> ViewedBody(args[1], args[2])
    [] f = "HctSolve" -> HctSolveBody(args[1], args[2], args[3])
    [] f = "solveToInt" -> solveToIntBody(args[1], args[2], args[3])
    [] f = "NewHct" -> NewHctBody(args[1], args[2], args[3])
    [] f = "setInternalState" -> setInternalStateBody(args[1], args[2])
    [] f = "NewHctFromInt" -> NewHctFromIntBody(args[1])
    [] f = "SetHue" -> SetHueBody(args[1], args[2])
    [] f = "SetChroma" -> SetChromaBody(args[1], args[2])
    [] f = "SetTone" -> SetToneBody(args[1], args[2])
    [] f = "InViewingConditions" -> InViewingConditionsBody(args[1], args[2])
    [] f = "createKeyColor" -> createKeyColorBody(args[1], args[2])
    [] f = "NewTonalPaletteFromHueChroma" -> NewTonalPaletteFromHueChromaBody(args[1], args[2])
    [] f = "NewTonalPaletteFromInt" -> NewTonalPaletteFromIntBody(args[1])
    [] f = "newCorePalette" -> newCorePaletteBody(args[1], args[2])

(***************************************************************************)
(* The state: the TonalPalette and the Hct under test, the operand of a    *)
(* pure function, the last call made with its arguments, what it returned, *)
(* the number of calls made so far, and for each tone the number of times  *)
(* Tone has invoked the solver for it.                                     *)
(***************************************************************************)
VARIABLES tp, hct, operand, call, ret, calls, solverCalls

vars == <<tp, hct, operand, call, ret, calls, solverCalls>>

None == "none"

(***************************************************************************)
(* TonalPalette: a palette is built, then its methods are called.          *)
(***************************************************************************)
Init ==
  /\ hct = None /\ operand = None /\ ret = None /\ calls = 0
  /\ solverCalls = [tone \in Tones |-> 0]
  /\ \/ \E hue \in Hues, chroma \in Chromas :
          /\ tp = NewTonalPaletteFromHueChroma(hue, chroma)
          /\ call = [op |-> "NewTonalPaletteFromHueChroma", args |-> <<hue, chroma>>]
     \/ \E argb \in Seeds :
          /\ tp = NewTonalPaletteFromInt(argb)
          /\ call = [op |-> "NewTonalPaletteFromInt", args |-> <<argb>>]

\* A faulty Tone, whose colour computed on a miss is a new variable of the
\* inner block: the colour is stored, the zero value returned.
ToneShadowed(tone) ==
  LET ok == tone \in DOMAIN tp.cache
      color == ToInt(NewHct(tp.hue, tp.chroma, F(tone)))
  IN  /\ tp' = [tp EXCEPT !.cache = IF ok THEN @ ELSE (tone :> color) @@ @]
      /\ ret' = IF ok THEN tp.cache[tone] ELSE W(0)
      /\ call' = [op |-> "Tone", args |-> <<tone>>, ok |-> ok]
      /\ solverCalls' = IF ok THEN solverCalls
                        ELSE [solverCalls EXCEPT ![tone] = @ + 1]
      /\ UNCHANGED <<hct, operand, calls>>

\* A faulty Tone, which on a miss makes a new cache of the one colour.
ToneEvicting(tone) ==
  LET ok == tone \in DOMAIN tp.cache
      color == IF ok THEN tp.cache[tone]
               ELSE ToInt(NewHct(tp.hue, tp.chroma, F(tone)))
  IN  /\ tp' = [tp EXCEPT !.cache = IF ok THEN @ ELSE (tone :> color)]
      /\ ret' = color
      /\ call' = [op |-> "Tone", args |-> <<tone>>, ok |-> ok]
      /\ solverCalls' = IF ok THEN solverCalls
                        ELSE [solverCalls EXCEPT ![tone] = @ + 1]
      /\ UNCHANGED <<hct, operand, calls>>

\* A faulty Tone, which computes the colour before it looks in the cache.
ToneRecomputing(tone) ==
  LET ok == tone \in DOMAIN tp.cache
      computed == ToInt(NewHct(tp.hue, tp.chroma, F(tone)))
      color == IF ok THEN tp.cache[tone] ELSE computed
  IN  /\ tp' = [tp EXCEPT !.cache = IF ok THEN @ ELSE (tone :> color) @@ @]
      /\ ret' = color
      /\ call' = [op |-> "Tone", args |-> <<tone>>, ok |-> ok]
      /\ solverCalls' = [solverCalls EXCEPT ![tone] = @ + 1]
      /\ UNCHANGED <<hct, operand, calls>>

Tone(tone) ==
  LET ok == tone \in DOMAIN tp.cache
      color == IF ok THEN tp.cache[tone]
               ELSE ToInt(NewHct(tp.hue, tp.chroma, F(tone)))
  IN  /\ tp' = [tp EXCEPT !.cache = IF ok THEN @ ELSE (tone :> color) @@ @]
      /\ ret' = color
      /\ call' = [op |-> "Tone", args |-> <<tone>>, ok |-> ok]
      /\ solverCalls' = IF ok THEN solverCalls
                        ELSE [solverCalls EXCEPT ![tone] = @ + 1]
      /\ UNCHANGED <<hct, operand, calls>>

\* A faulty GetHct, which stores its colour in the cache under the tone
\* truncated to an int.
GetHctCaching(tone) ==
  /\ ret' = NewHct(tp.hue, tp.chroma, tone)
  /\ tp' = [tp EXCEPT !.cache =
             (FTrunc(tone) :> ToInt(NewHct(tp.hue, tp.chroma, tone))) @@ @]
  /\ call' = [op |-> "GetHct", args |-> <<tone>>]
  /\ UNCHANGED <<hct, operand, calls, solverCalls>>

GetHct(tone) ==
  /\ ret' = NewHct(tp.hue, tp.chroma, tone)
  /\ call' = [op |-> "GetHct", args |-> <<tone>>]
  /\ UNCHANGED <<tp, hct, operand, calls, solverCalls>>

TonalPaletteGetChroma ==
  /\ ret' = tp.chroma
  /\ call' = [op |-> "GetChroma", args |-> <<>>]
  /\ UNCHANGED <<tp, hct, operand, calls, solverCalls>>

TonalPaletteGetHue ==
  /\ ret' = tp.hue
  /\ call' = [op |-> "GetHue", args |-> <<>>]
  /\ UNCHANGED <<tp, hct, operand, calls, solverCalls>>

GetKeyColor ==
  /\ ret' = tp.keyColor
  /\ call' = [op |-> "GetKeyColor", args |-> <<>>]
  /\ UNCHANGED <<tp, hct, operand, calls, solverCalls>>

Next ==
  \/ \E tone \in Tones : Tone(tone)
  \/ \E tone \in ToneDoubles : GetHct(tone)
  \/ TonalPaletteGetChroma
  \/ TonalPaletteGetHue
  \/ GetKeyColor

Spec == Init /\ [][Next]_vars

(***************************************************************************)
(* Hct: an Hct is built, then at most MaxCalls methods are called on it.   *)
(***************************************************************************)
\* The viewing conditions a colour is translated into.
ViewingConditionsSamples ==
  {DefaultViewingConditions, DefaultViewingConditionsWithBackgroundLstar(F(20))}

InitHct ==
  /\ tp = None /\ operand = None /\ ret = None /\ calls = 0 /\ solverCalls = None
  /\ \/ \E i \in 0..MaxHue :
          LET hue == F(240 * i - 120)
              chroma == F(48 * i)
              tone == F(20 * i + 20)
          IN  /\ hct = NewHct(hue, chroma, tone)
              /\ call = [op |-> "NewHct", args |-> <<hue, chroma, tone>>]
     \/ \E argb \in Seeds :
          /\ hct = NewHctFromInt(argb)
          /\ call = [op |-> "NewHctFromInt", args |-> <<argb>>]

CallSetHue(newHue) ==
  /\ calls < MaxCalls
  /\ hct' = SetHue(hct, newHue)
  /\ call' = [op |-> "SetHue", args |-> <<newHue>>]
  /\ calls' = calls + 1 /\ UNCHANGED solverCalls
  /\ UNCHANGED <<tp, operand, ret>>

CallSetChroma(newChroma) ==
  /\ calls < MaxCalls
  /\ hct' = SetChroma(hct, newChroma)
  /\ call' = [op |-> "SetChroma", args |-> <<newChroma>>]
  /\ calls' = calls + 1 /\ UNCHANGED solverCalls
  /\ UNCHANGED <<tp, operand, ret>>

CallSetTone(newTone) ==
  /\ calls < MaxCalls
  /\ hct' = SetTone(hct, newTone)
  /\ call' = [op |-> "SetTone", args |-> <<newTone>>]
  /\ calls' = calls + 1 /\ UNCHANGED solverCalls
  /\ UNCHANGED <<tp, operand, ret>>

\* h.InViewingConditions(vc) returns a new Hct: the model goes on with it.
CallInViewingConditions(vc) ==
  /\ calls < MaxCalls
  /\ hct' = InViewingConditions(hct, vc)
  /\ call' = [op |-> "InViewingConditions", args |-> <<vc>>]
  /\ calls' = calls + 1 /\ UNCHANGED solverCalls
  /\ UNCHANGED <<tp, operand, ret>>

NextHct ==
  \/ \E newHue \in Hues : CallSetHue(newHue)
  \/ \E newChroma \in Chromas : CallSetChroma(newChroma)
  \/ \E tone \in Tones : CallSetTone(F(tone))
  \/ \E vc \in ViewingConditionsSamples : CallInViewingConditions(vc)

SpecHct == InitHct /\ [][NextHct]_vars

(***************************************************************************)
(* ARGB packing: components are packed, an ARGB value is taken apart and   *)
(* packed again.                                                           *)
(***************************************************************************)
InitArgb ==
  /\ tp = None /\ hct = None /\ ret = None /\ calls = 0 /\ solverCalls = None
  /\ call = [op |-> "none", args |-> <<>>]
  /\ \/ \E red \in Components, green \in Components, blue \in Components :
          operand = [red |-> red, green |-> green, blue |-> blue]
     \/ \E argb \in Argbs : operand = [argb |-> argb]

\* ArgbFromRgb of the components drawn.
CallArgbFromRgb ==
  /\ call.op = "none"
  /\ "red" \in DOMAIN operand
  /\ ret' = ArgbFromRgb(operand.red, operand.green, operand.blue)
  /\ call' = [op |-> "ArgbFromRgb", args |-> <<operand.red, operand.green, operand.blue>>]
  /\ UNCHANGED <<tp, hct, operand, calls, solverCalls>>

\* The four accessors and IsOpaque, of the ARGB drawn or of the ARGB that
\* ArgbFromRgb returned.
CallFromArgb ==
  /\ \/ call.op = "none" /\ "argb" \in DOMAIN operand
     \/ call.op = "ArgbFromRgb"
  /\ LET argb == IF call.op = "none" THEN operand.argb ELSE ret
     IN  /\ ret' = [alpha |-> AlphaFromArgb(argb), red |-> RedFromArgb(argb),
                    green |-> GreenFromArgb(argb), blue |-> BlueFromArgb(argb),
                    opaque |-> IsOpaque(argb)]
         /\ call' = [op |-> "FromArgb", args |-> <<argb>>]
  /\ UNCHANGED <<tp, hct, operand, calls, solverCalls>>

\* ArgbFromRgb of the components the accessors returned.
CallArgbFromRgbAgain ==
  /\ call.op = "FromArgb"
  /\ ret' = ArgbFromRgb(ret.red, ret.green, ret.blue)
  /\ call' = [op |-> "ArgbFromRgbAgain", args |-> call.args, alpha |-> ret.alpha]
  /\ UNCHANGED <<tp, hct, operand, calls, solverCalls>>

NextArgb == CallArgbFromRgb \/ CallFromArgb \/ CallArgbFromRgbAgain

SpecArgb == InitArgb /\ [][NextArgb]_vars

(***************************************************************************)
(* sRGB companding: a component is linearised, the result delinearised.    *)
(***************************************************************************)
InitSrgb ==
  /\ tp = None /\ hct = None /\ ret = None /\ calls = 0 /\ solverCalls = None
  /\ call = [op |-> "none", args |-> <<>>]
  /\ operand \in Bytes

CallLinearized ==
  /\ call.op = "none"
  /\ ret' = Linearized(operand)
  /\ call' = [op |-> "Linearized", args |-> <<operand>>]
  /\ UNCHANGED <<tp, hct, operand, calls, solverCalls>>

CallDelinearized ==
  /\ call.op = "Linearized"
  /\ ret' = Delinearized(ret)
  /\ call' = [op |-> "Delinearized", args |-> <<ret>>]
  /\ UNCHANGED <<tp, hct, operand, calls, solverCalls>>

NextSrgb == CallLinearized \/ CallDelinearized

SpecSrgb == InitSrgb /\ [][NextSrgb]_vars


(***************************************************************************)
(* ViewingConditions: a ViewingConditions is made, then the functions that *)
(* take one are called with it or with DefaultViewingConditions.  operand  *)
(* holds the objects of the caller: vc, the value MakeViewingConditions    *)
(* returned; default, the package variable DefaultViewingConditions; out,  *)
(* an array of the caller.  A ViewingConditions is passed by value, but    *)
(* its RgbD is a slice: every copy of the struct shares the three elements *)
(* that MakeViewingConditions allocated.  hct holds the Hct h and the Cam16  *)
(* cam of a colour.                                                        *)
(***************************************************************************)
\* The objects a call may name.
Which == {"vc", "default"}

\* The arrays a caller may pass as returnArray: none, an array of its own,
\* or the slice that vc.GetRgbD() returned.
ReturnArrays == {"nil", "out", "RgbD"}

\* The fields of a ViewingConditions, each with a getter.
Fields == {"Aw", "N", "Nbb", "Ncb", "C", "Nc", "RgbD", "Fl", "FlRoot", "Z"}

InitVc ==
  /\ tp = None /\ ret = None /\ calls = 0 /\ solverCalls = None
  /\ call = [op |-> "none", args |-> <<>>]
  /\ \E argb \in Seeds :
       hct = [h |-> NewHctFromInt(argb), cam |-> Cam16FromInt(argb)]
  /\ \E backgroundLstar \in {F(20), F(50)} :
       operand = [vc |-> DefaultViewingConditionsWithBackgroundLstar(backgroundLstar),
                  default |-> DefaultViewingConditions,
                  out |-> <<FZero, FZero, FZero>>]

\* Cam16FromIntInViewingConditions(argb, vc), which calls
\* Cam16FromXyzInViewingConditions.
CallCam16FromIntInViewingConditions(which) ==
  /\ calls < MaxCalls
  /\ ret' = Cam16FromIntInViewingConditions(ToInt(hct.h), operand[which])
  /\ call' = [op |-> "Cam16FromIntInViewingConditions", args |-> <<which>>]
  /\ calls' = calls + 1 /\ UNCHANGED solverCalls
  /\ UNCHANGED <<tp, hct, operand>>

\* A faulty Viewed, which stores the XYZ it computed in the RgbD of the
\* ViewingConditions.
CallViewedStoring(which) ==
  /\ calls < MaxCalls
  /\ ret' = Viewed(hct.cam, operand[which])
  /\ operand' = [operand EXCEPT ![which].RgbD =
                   XyzInViewingConditions(hct.cam, operand[which])]
  /\ call' = [op |-> "Viewed", args |-> <<which>>]
  /\ calls' = calls + 1 /\ UNCHANGED solverCalls
  /\ UNCHANGED <<tp, hct>>

\* c.Viewed(vc), for c the Cam16 of the colour.
CallViewed(which) ==
  /\ calls < MaxCalls
  /\ ret' = Viewed(hct.cam, operand[which])
  /\ call' = [op |-> "Viewed", args |-> <<which>>]
  /\ calls' = calls + 1 /\ UNCHANGED solverCalls
  /\ UNCHANGED <<tp, hct, operand>>

\* c.XyzInViewingConditions(vc, returnArray): the XYZ is written to
\* returnArray when it is not nil, after RgbD was read, and that array
\* returned; a new array is returned otherwise.  The slice of vc.GetRgbD()
\* is passed with vc only.
CallXyzInViewingConditions(which, returnArray) ==
  /\ calls < MaxCalls
  /\ returnArray = "RgbD" => which = "vc"
  /\ LET xyz == XyzInViewingConditions(hct.cam, operand[which])
     IN  /\ ret' = xyz
         /\ operand' =
              IF returnArray = "out" THEN [operand EXCEPT !.out = xyz]
              ELSE IF returnArray = "RgbD" THEN [operand EXCEPT !.vc.RgbD = xyz]
              ELSE operand
  /\ call' = [op |-> "XyzInViewingConditions", args |-> <<which, returnArray>>]
  /\ calls' = calls + 1 /\ UNCHANGED solverCalls
  /\ UNCHANGED <<tp, hct>>

\* h.InViewingConditions(vc), which returns a new Hct.
CallHctInViewingConditions(which) ==
  /\ calls < MaxCalls
  /\ ret' = InViewingConditions(hct.h, operand[which])
  /\ call' = [op |-> "InViewingConditions", args |-> <<which>>]
  /\ calls' = calls + 1 /\ UNCHANGED solverCalls
  /\ UNCHANGED <<tp, hct, operand>>

\* The getter of a field; GetRgbD returns the slice itself.
CallGetter(which, field) ==
  /\ calls < MaxCalls
  /\ ret' = operand[which][field]
  /\ call' = [op |-> "Get" \o field, args |-> <<which>>]
  /\ calls' = calls + 1 /\ UNCHANGED solverCalls
  /\ UNCHANGED <<tp, hct, operand>>

NextVc ==
  \/ \E which \in Which : CallCam16FromIntInViewingConditions(which)
  \/ \E which \in Which : CallViewed(which)
  \/ \E which \in Which, returnArray \in ReturnArrays :
       CallXyzInViewingConditions(which, returnArray)
  \/ \E which \in Which : CallHctInViewingConditions(which)
  \/ \E which \in Which, field \in Fields : CallGetter(which, field)

SpecVc == InitVc /\ [][NextVc]_vars

(***************************************************************************)
(* utils/strings: HexFromArgb.  A string is a string of TLA+.               *)
(***************************************************************************)
\* The digits that the verb %x of fmt writes.
ldigits == <<"0", "1", "2", "3", "4", "5", "6", "7", "8", "9",
             "a", "b", "c", "d", "e", "f">>

\* The digits of n >= 0 in base 16, the most significant first.
RECURSIVE fmtInteger(_)
fmtInteger(n) ==
  IF n < 16 THEN ldigits[n + 1]
  ELSE fmtInteger(n \div 16) \o ldigits[(n % 16) + 1]

\* fmt.Sprintf("%02x", n): the digits of n, after the sign of a negative n,
\* with a zero before them when that makes the width 2.
Sprintf02x(n) ==
  IF n < 0 THEN "-" \o fmtInteger(-n)
  ELSE IF n < 16 THEN "0" \o fmtInteger(n)
  ELSE fmtInteger(n)

\* A faulty HexFromArgb, which writes blue before green.
HexFromArgbBlueFirst(argb) ==
  "#" \o Sprintf02x(RedFromArgb(argb)) \o Sprintf02x(BlueFromArgb(argb))
      \o Sprintf02x(GreenFromArgb(argb))

HexFromArgb(argb) ==
  "#" \o Sprintf02x(RedFromArgb(argb)) \o Sprintf02x(GreenFromArgb(argb))
      \o Sprintf02x(BlueFromArgb(argb))

(***************************************************************************)
(* Hex formatting: HexFromArgb is called with an ARGB value.               *)
(***************************************************************************)
\* The ARGB values formatted: those of Argbs, the colour 0xFF343DFF with
\* each alpha, and values of more than 32 bits.
HexArgbs ==
  Argbs \cup {<<alpha * 256 + 52, 15871>> : alpha \in {0, 255, 256 * 255, -1}}

InitHex ==
  /\ tp = None /\ hct = None /\ ret = None /\ calls = 0 /\ solverCalls = None
  /\ call = [op |-> "none", args |-> <<>>]
  /\ operand \in HexArgbs

CallHexFromArgb ==
  /\ call.op = "none"
  /\ ret' = HexFromArgb(operand)
  /\ call' = [op |-> "HexFromArgb", args |-> <<operand>>]
  /\ UNCHANGED <<tp, hct, operand, calls, solverCalls>>

NextHex == CallHexFromArgb

SpecHex == InitHex /\ [][NextHex]_vars
(***************************************************************************)
(* YFromLstar and LstarFromY on float64, bit for bit.                      *)
(***************************************************************************)
\* The largest error of math.Pow(t, 1.0 / 3.0), in units of the last place.
PowSlack == 4

\* ke of YFromLstar.
ke64 == D(8)

\* e and kappa of labF.
e64 == DDiv(D(216), D(24389))
kappa64 == DDiv(D(24389), D(27))

\* The branch of YFromLstar: lstar > ke.
YFromLstarCubic(lstar) == DGt(lstar, ke64)

YFromLstar64(lstar) ==
  IF YFromLstarCubic(lstar)
  THEN DMul(DPow3(DDiv(DAdd(lstar, D(16)), D(116))), D(100))
  ELSE DMul(DDiv(lstar, kappa64), D(100))

\* The branch of labF: t > e.
labFCubic(t) == DGt(t, e64)

\* A faulty labF, which takes the cube root of every t.
labF64AlwaysCubic(t, slack, fused) ==
  IF Len(t[2]) = 0 THEN DZero ELSE DPowThird(t, slack)

labF64(t, slack, fused) ==
  IF labFCubic(t) THEN DPowThird(t, slack)
  ELSE DDiv(DMulAdd(kappa64, t, D(16), fused), D(116))

LstarFromY64(y, slack, fused) ==
  DMulAdd(labF64(DDiv(y, D(100)), slack, fused[1]), D(116), D(-16), fused[2])

(***************************************************************************)
(* The round trip: YFromLstar is called with an L*, and LstarFromY with    *)
(* the Y it returned.                                                      *)
(***************************************************************************)
\* The L* of the round trip, in tenths.
LstarTenths ==
  {0, 1, 5, 40, 79, 80, 81, 85, 125, 333, 500, 667, 901, 999, 1000}

\* The L* of the round trip: the tenths, and the float64 next to 8.
Lstars ==
  {DDiv(D(n), D(10)) : n \in LstarTenths}
    \cup {DNudge(D(8), k) : k \in {-2, -1, 1, 2}}

InitLstar ==
  /\ tp = None /\ hct = None /\ ret = None /\ calls = 0 /\ solverCalls = None
  /\ call = [op |-> "none", args |-> <<>>]
  /\ operand \in Lstars

CallYFromLstar ==
  /\ call.op = "none"
  /\ ret' = YFromLstar64(operand)
  /\ call' = [op |-> "YFromLstar", args |-> <<operand>>]
  /\ UNCHANGED <<tp, hct, operand, calls, solverCalls>>

CallLstarFromY ==
  /\ call.op = "YFromLstar"
  /\ \E slack \in -PowSlack .. PowSlack, fused \in BOOLEAN \X BOOLEAN :
       ret' = LstarFromY64(ret, slack, fused)
  /\ call' = [op |-> "LstarFromY", args |-> <<ret>>]
  /\ UNCHANGED <<tp, hct, operand, calls, solverCalls>>

NextLstar == CallYFromLstar \/ CallLstarFromY

SpecLstar == InitLstar /\ [][NextLstar]_vars
(***************************************************************************)
(* Degrees: SanitizeDegreesInt is called with an int, and again with the   *)
(* int it returned.                                                        *)
(***************************************************************************)
\* The degrees drawn are those of -MaxDegrees .. MaxDegrees and ints of
\* ten digits.
MaxDegrees == 800

Degrees ==
  (-MaxDegrees .. MaxDegrees)
    \cup {-2147483000, -2147482920, 2147482920, 2147483000}

InitDeg ==
  /\ tp = None /\ hct = None /\ ret = None /\ calls = 0 /\ solverCalls = None
  /\ call = [op |-> "none", args |-> <<>>]
  /\ operand \in Degrees

CallSanitizeDegreesInt ==
  /\ call.op = "none"
  /\ ret' = SanitizeDegreesInt(operand)
  /\ call' = [op |-> "SanitizeDegreesInt", args |-> <<operand>>]
  /\ UNCHANGED <<tp, hct, operand, calls, solverCalls>>

CallSanitizeDegreesIntAgain ==
  /\ call.op = "SanitizeDegreesInt"
  /\ ret' = SanitizeDegreesInt(ret)
  /\ call' = [op |-> "SanitizeDegreesIntAgain", args |-> <<ret>>]
  /\ UNCHANGED <<tp, hct, operand, calls, solverCalls>>

NextDeg == CallSanitizeDegreesInt \/ CallSanitizeDegreesIntAgain

SpecDeg == InitDeg /\ [][NextDeg]_vars
(***************************************************************************)
(* CorePalette: a core palette and the TonalPalette of the same seed are   *)
(* built, then Tone is called on the palette A1 and on the TonalPalette.   *)
(***************************************************************************)
\* The seeds: 0xFF0000FF, of CAM16 chroma above 48, and 0xFF8090A0, of
\* CAM16 chroma below 48.
CoreSeeds == {<<65280, 255>>, <<65424, 37024>>}

\* The tones asked of both palettes.
CoreTones == {20, 100}

InitCore ==
  /\ hct = None /\ ret = None /\ calls = 0
  /\ solverCalls = [tone \in Tones |-> 0]
  /\ \E argb \in CoreSeeds :
       /\ tp = NewTonalPaletteFromInt(argb)
       /\ \/ /\ operand = [core |-> NewCorePaletteFromInt(argb),
                           argb |-> argb, isContent |-> FALSE]
             /\ call = [op |-> "NewCorePaletteFromInt", args |-> <<argb>>]
          \/ /\ operand = [core |-> NewContentCorePaletteFromInt(argb),
                           argb |-> argb, isContent |-> TRUE]
             /\ call = [op |-> "NewContentCorePaletteFromInt", args |-> <<argb>>]

\* Tone called on the palette A1 of the core palette.
A1Tone(tone) ==
  LET ok == tone \in DOMAIN operand.core.A1.cache
      color == IF ok THEN operand.core.A1.cache[tone]
               ELSE ToInt(NewHct(operand.core.A1.hue, operand.core.A1.chroma,
                                 F(tone)))
  IN  /\ operand' = [operand EXCEPT
                       !.core.A1.cache = IF ok THEN @ ELSE (tone :> color) @@ @]
      /\ ret' = color
      /\ call' = [op |-> "A1.Tone", args |-> <<tone>>, ok |-> ok]
      /\ UNCHANGED <<tp, hct, calls, solverCalls>>

NextCore ==
  \/ \E tone \in CoreTones : A1Tone(tone)
  \/ \E tone \in CoreTones : Tone(tone)

SpecCore == InitCore /\ [][NextCore]_vars
(***************************************************************************)
(* Clipping: Delinearized is called with a linear component of any size,   *)
(* ArgbFromLinrgb with components in and around 0 .. 100.                  *)
(***************************************************************************)
\* The components drawn are the halves from -20 to MaxComponent and
\* powers of two of both signs up to 2^200.
MaxComponent == 120

ComponentsAround == {Dec(n, 2) : n \in -40 .. 2 * MaxComponent}

ComponentsBeyond ==
  {<<s * P27, e>> : s \in {-1, 1}, e \in {3, 13, 33, 50, 110, 113, 173}}

InitClip ==
  /\ tp = None /\ hct = None /\ ret = None /\ calls = 0 /\ solverCalls = None
  /\ call = [op |-> "none", args |-> <<>>]
  /\ operand \in ComponentsAround \cup ComponentsBeyond

CallDelinearizedAny ==
  /\ call.op = "none"
  /\ \E converted \in Conversions(operand) :
       /\ ret' = DelinearizedAny(operand, converted)
       /\ call' = [op |-> "Delinearized", args |-> <<operand>>,
                   converted |-> converted]
  /\ UNCHANGED <<tp, hct, operand, calls, solverCalls>>

\* ArgbFromLinrgb of the component drawn, a component below 0 and one in
\* 0 .. 100.
CallArgbFromLinrgb ==
  /\ call.op = "none"
  /\ operand \in ComponentsAround
  /\ ret' = ArgbFromLinrgb(<<operand, F(-10), F(50)>>)
  /\ call' = [op |-> "ArgbFromLinrgb", args |-> <<<<operand, F(-10), F(50)>>>>]
  /\ UNCHANGED <<tp, hct, operand, calls, solverCalls>>

NextClip == CallDelinearizedAny \/ CallArgbFromLinrgb

SpecClip == InitClip /\ [][NextClip]_vars
(***************************************************************************)
(* The inverse transform: XyzInViewingConditions is called on a Cam16 of   *)
(* lightness J, chroma C and hue h, with a nil returnArray.                *)
(***************************************************************************)
\* The J, C and h drawn, 0 among them.
Lightnesses == {F(0), F(1), F(50), F(100)}
CamChromas == {F(0), F(10), F(48), F(96)}
CamHues == {F(0), F(90), F(210), F(330)}

\* The fields of a Cam16 that XyzInViewingConditions reads.
Jch(j, c, h) == [j |-> j, chroma |-> c, hue |-> h]

InitXyz ==
  /\ tp = None /\ hct = None /\ ret = None /\ calls = 0 /\ solverCalls = None
  /\ call = [op |-> "none", args |-> <<>>]
  /\ \E j \in Lightnesses, c \in CamChromas, h \in CamHues,
        viewingConditions \in ViewingConditionsSamples :
       operand = [cam |-> Jch(j, c, h), vc |-> viewingConditions]

CallXyzOfJch ==
  /\ call.op = "none"
  /\ ret' = XyzInViewingConditions(operand.cam, operand.vc)
  /\ call' = [op |-> "XyzInViewingConditions", args |-> <<operand.cam>>]
  /\ UNCHANGED <<tp, hct, operand, calls, solverCalls>>

NextXyz == CallXyzOfJch

SpecXyz == InitXyz /\ [][NextXyz]_vars
(***************************************************************************)
(* FromJch: a colour is translated to CAM16 by the forward transform, and  *)
(* a Cam16 is rebuilt from the J, C and h of the result in the same        *)
(* viewing conditions.                                                     *)
(***************************************************************************)
\* The colours translated: opaque, of components 0, 128 and 255, black
\* left out (its J is 0, and FromJch divides by sqrt(J / 100)).
JchSeeds ==
  {<<65280 + red, green * 256 + blue>> :
     red \in {0, 128, 255}, green \in {0, 128, 255}, blue \in {0, 128, 255}}
    \ {<<65280, 0>>}

InitJch ==
  /\ tp = None /\ hct = None /\ ret = None /\ calls = 0 /\ solverCalls = None
  /\ call = [op |-> "none", args |-> <<>>]
  /\ \E argb \in JchSeeds, viewingConditions \in ViewingConditionsSamples :
       operand = [argb |-> argb, vc |-> viewingConditions]

\* The forward transform; the Cam16 is kept for the second call.
CallForward ==
  /\ call.op = "none"
  /\ ret' = Cam16FromIntInViewingConditions(operand.argb, operand.vc)
  /\ hct' = [cam |-> Cam16FromIntInViewingConditions(operand.argb, operand.vc)]
  /\ call' = [op |-> "Cam16FromIntInViewingConditions", args |-> <<operand.argb>>]
  /\ UNCHANGED <<tp, operand, calls, solverCalls>>

CallFromJch ==
  /\ call.op = "Cam16FromIntInViewingConditions"
  /\ ret' = cam16FromJchInViewingConditions(hct.cam.j, hct.cam.chroma,
                                            hct.cam.hue, operand.vc)
  /\ call' = [op |-> "cam16FromJchInViewingConditions",
              args |-> <<hct.cam.j, hct.cam.chroma, hct.cam.hue>>]
  /\ UNCHANGED <<tp, hct, operand, calls, solverCalls>>

NextJch == CallForward \/ CallFromJch

SpecJch == InitJch /\ [][NextJch]_vars
(***************************************************************************)
(* Two threads call Tone on one TonalPalette with no lock.  A call is the  *)
(* steps of the method: the lookup in the map, the solver call, the store  *)
(* into the map, the return.  A store takes time: it begins and it ends,   *)
(* and a step of the other thread may fall between.  A lookup or a store   *)
(* that meets a store under way is a data race on the map: the runtime     *)
(* may stop the program with a fatal error (concurrent map read and map    *)
(* write, concurrent map writes), the lookup may miss a key that is        *)
(* there, the store may be lost.                                           *)
(***************************************************************************)
Threads == {1, 2}

\* The tones the threads ask, and the number of calls they make in all.
RaceTones == {20, 100}
MaxToneCalls == 3

\* The other thread.
Other(th) == 3 - th

InitRace ==
  /\ hct = None /\ calls = 0
  /\ solverCalls = [tone \in Tones |-> 0]
  /\ tp = NewTonalPaletteFromInt(<<65280, 255>>)
  /\ operand = [pc |-> <<"idle", "idle">>, tone |-> <<0, 0>>,
                color |-> <<W(0), W(0)>>, writers |-> {}, raced |-> {},
                returned |-> {}, fatal |-> FALSE]
  /\ ret = <<None, None>>
  /\ call = [op |-> "NewTonalPaletteFromInt", args |-> <<<<65280, 255>>>>]

\* The thread th calls Tone(tone).
ToneCalled(th, tone) ==
  /\ ~operand.fatal /\ operand.pc[th] = "idle" /\ calls < MaxToneCalls
  /\ operand' = [operand EXCEPT !.pc[th] = "lookup", !.tone[th] = tone,
                                !.returned = @ \ {th}]
  /\ ret' = [ret EXCEPT ![th] = None]
  /\ calls' = calls + 1
  /\ call' = [op |-> "Tone", args |-> <<tone>>, thread |-> th, step |-> "call"]
  /\ UNCHANGED <<tp, hct, solverCalls>>

\* color, ok := tp.cache[tone], with no store under way.
ToneLookup(th) ==
  /\ ~operand.fatal /\ operand.pc[th] = "lookup" /\ operand.writers = {}
  /\ operand' =
       IF operand.tone[th] \in DOMAIN tp.cache
       THEN [operand EXCEPT !.pc[th] = "return",
                            !.color[th] = tp.cache[operand.tone[th]]]
       ELSE [operand EXCEPT !.pc[th] = "solve"]
  /\ call' = [op |-> "Tone", args |-> <<operand.tone[th]>>, thread |-> th,
              step |-> "lookup"]
  /\ UNCHANGED <<tp, hct, ret, calls, solverCalls>>

\* color, ok := tp.cache[tone], with a store of the other thread under
\* way: a fatal error, a miss, or the lookup as it would be.
ToneLookupRacing(th, outcome) ==
  /\ ~operand.fatal /\ operand.pc[th] = "lookup" /\ operand.writers # {}
  /\ operand' =
       IF outcome = "fatal" THEN [operand EXCEPT !.fatal = TRUE]
       ELSE IF outcome = "found" /\ operand.tone[th] \in DOMAIN tp.cache
       THEN [operand EXCEPT !.pc[th] = "return",
                            !.color[th] = tp.cache[operand.tone[th]]]
       ELSE [operand EXCEPT !.pc[th] = "solve"]
  /\ call' = [op |-> "Tone", args |-> <<operand.tone[th]>>, thread |-> th,
              step |-> "lookup"]
  /\ UNCHANGED <<tp, hct, ret, calls, solverCalls>>

\* A faulty solver call, for the tone the other thread asked last.
ToneSolveOther(th) ==
  /\ ~operand.fatal /\ operand.pc[th] = "solve"
  /\ operand' =
       [operand EXCEPT
          !.pc[th] = "store",
          !.color[th] = ToInt(NewHct(tp.hue, tp.chroma,
                                     F(operand.tone[Other(th)])))]
  /\ solverCalls' = [solverCalls EXCEPT ![operand.tone[th]] = @ + 1]
  /\ call' = [op |-> "Tone", args |-> <<operand.tone[th]>>, thread |-> th,
              step |-> "solve"]
  /\ UNCHANGED <<tp, hct, ret, calls>>

\* color = hct.NewHct(tp.hue, tp.chroma, float64(tone)).ToInt()
ToneSolve(th) ==
  /\ ~operand.fatal /\ operand.pc[th] = "solve"
  /\ operand' =
       [operand EXCEPT
          !.pc[th] = "store",
          !.color[th] = ToInt(NewHct(tp.hue, tp.chroma, F(operand.tone[th])))]
  /\ solverCalls' = [solverCalls EXCEPT ![operand.tone[th]] = @ + 1]
  /\ call' = [op |-> "Tone", args |-> <<operand.tone[th]>>, thread |-> th,
              step |-> "solve"]
  /\ UNCHANGED <<tp, hct, ret, calls>>

\* tp.cache[tone] = color begins; with a store of the other thread under
\* way it is a fatal error or both stores go on, each one racing.
ToneStoreBegin(th, outcome) ==
  /\ ~operand.fatal /\ operand.pc[th] = "store"
  /\ outcome = "fatal" => operand.writers # {}
  /\ operand' =
       IF outcome = "fatal" THEN [operand EXCEPT !.fatal = TRUE]
       ELSE [operand EXCEPT
               !.pc[th] = "storing",
               !.writers = @ \cup {th},
               !.raced = IF operand.writers = {} THEN @ ELSE Threads]
  /\ call' = [op |-> "Tone", args |-> <<operand.tone[th]>>, thread |-> th,
              step |-> "store"]
  /\ UNCHANGED <<tp, hct, ret, calls, solverCalls>>

\* tp.cache[tone] = color ends: the key has the colour, unless the store
\* raced and was lost.
ToneStoreEnd(th, lost) ==
  /\ ~operand.fatal /\ operand.pc[th] = "storing"
  /\ lost => th \in operand.raced
  /\ tp' = IF lost THEN tp
           ELSE [tp EXCEPT !.cache =
                   (operand.tone[th] :> operand.color[th]) @@ @]
  /\ operand' = [operand EXCEPT !.pc[th] = "return",
                                !.writers = @ \ {th}, !.raced = @ \ {th}]
  /\ call' = [op |-> "Tone", args |-> <<operand.tone[th]>>, thread |-> th,
              step |-> "stored"]
  /\ UNCHANGED <<hct, ret, calls, solverCalls>>

\* return color
ToneReturn(th) ==
  /\ ~operand.fatal /\ operand.pc[th] = "return"
  /\ ret' = [ret EXCEPT ![th] = operand.color[th]]
  /\ operand' = [operand EXCEPT !.pc[th] = "idle", !.returned = @ \cup {th}]
  /\ call' = [op |-> "Tone", args |-> <<operand.tone[th]>>, thread |-> th,
              step |-> "return"]
  /\ UNCHANGED <<tp, hct, calls, solverCalls>>

NextRace ==
  \/ \E th \in Threads, tone \in RaceTones : ToneCalled(th, tone)
  \/ \E th \in Threads : ToneLookup(th)
  \/ \E th \in Threads, outcome \in {"fatal", "missed", "found"} :
       ToneLookupRacing(th, outcome)
  \/ \E th \in Threads : ToneSolve(th)
  \/ \E th \in Threads, outcome \in {"fatal", "goes on"} :
       ToneStoreBegin(th, outcome)
  \/ \E th \in Threads, lost \in BOOLEAN : ToneStoreEnd(th, lost)
  \/ \E th \in Threads : ToneReturn(th)

SpecRace == InitRace /\ [][NextRace]_vars
(***************************************************************************)
(* createKeyColor, step by step: the first solver call, then the loop,     *)
(* each iteration of which tests the chroma found so far, solves the tone  *)
(* above 50 and the tone below.  hue and chroma are any float64, NaN       *)
(* among them: NewTonalPaletteFromHueChroma passes on what it is given.    *)
(***************************************************************************)
\* A number of the model is a pair; NaN is not.
IsNaN(a) == Len(a) # 2

\* The tones the solver may be asked.
KeyTones == 0..100

\* What the solver answers to a NaN chroma is not determined: any of these.
NaNColours == {<<65280, 0>>, <<65535, 65535>>}

\* The colours solveToInt(hue, chroma, tone) may return.
SolverOutcomes(hue, chroma, tone) ==
  IF IsNaN(chroma) THEN NaNColours ELSE {solveToInt(hue, chroma, tone)}

\* hct.NewHct(hue, chroma, tone), the solver having answered argb.
NewHctSolved(hue, chroma, tone, argb) ==
  [hue |-> hue, chroma |-> chroma, tone |-> tone, argb |-> argb]

\* math.Abs(candidate.GetChroma() - chroma).
ChromaDelta(candidate, chroma) ==
  IF IsNaN(chroma) \/ IsNaN(GetChroma(candidate)) THEN NaN
  ELSE FAbs(FSub(GetChroma(candidate), chroma))

\* candidateDelta < smallestDelta: false of a NaN.
DeltaLess(candidateDelta, smallestDelta) ==
  /\ ~IsNaN(candidateDelta) /\ ~IsNaN(smallestDelta)
  /\ FLt(candidateDelta, smallestDelta)

\* math.Round(chroma) == math.Round(smallestDeltaHct.GetChroma()): false
\* of a NaN.
RoundsEqual(chroma, found) ==
  /\ ~IsNaN(chroma) /\ ~IsNaN(found)
  /\ FRound(chroma) = FRound(found)

\* operand after the candidate has been compared with the smallest delta.
KeyCompared(candidate) ==
  IF DeltaLess(ChromaDelta(candidate, operand.chroma), operand.smallestDelta)
  THEN [operand EXCEPT !.smallestDelta = ChromaDelta(candidate, operand.chroma),
                       !.smallestDeltaHct = candidate]
  ELSE operand

\* createKeyColor(hue, chroma) is called.
KeyCalled(hue, chroma) ==
  /\ operand = [pc |-> "start", hue |-> hue, chroma |-> chroma,
                delta |-> 0, iterations |-> 0, smallestDelta |-> FZero,
                smallestDeltaHct |-> ZeroHct]
  /\ call = [op |-> "createKeyColor", args |-> <<hue, chroma>>]

InitKey ==
  /\ tp = None /\ hct = None /\ ret = None /\ calls = 0
  /\ solverCalls = [tone \in KeyTones |-> 0]
  /\ \E hue \in Hues :
       \/ \E chroma \in Chromas : KeyCalled(hue, chroma)
       \/ KeyCalled(hue, NaN)

\* The solver is called for the tone.
KeySolved(tone) ==
  /\ calls' = calls + 1
  /\ solverCalls' = [solverCalls EXCEPT ![tone] = @ + 1]

\* smallestDeltaHct := hct.NewHct(hue, chroma, startTone), and its delta.
KeyStart ==
  /\ operand.pc = "start"
  /\ \E argb \in SolverOutcomes(operand.hue, operand.chroma, F(50)) :
        /\ operand' =
             [operand EXCEPT
                !.pc = "loop", !.delta = 1,
                !.smallestDeltaHct =
                   NewHctSolved(operand.hue, operand.chroma, F(50), argb),
                !.smallestDelta =
                   ChromaDelta(NewHctSolved(operand.hue, operand.chroma, F(50), argb),
                               operand.chroma)]
        /\ KeySolved(50)
        /\ call' = [call EXCEPT !.op = "NewHct"]
        /\ UNCHANGED <<tp, hct, ret>>

\* A faulty loop test, which lets delta = 50 in.
KeyLoopThroughFifty ==
  /\ operand.pc = "loop"
  /\ IF operand.delta <= 50
     THEN /\ operand' = [operand EXCEPT !.pc = "body", !.iterations = @ + 1]
          /\ UNCHANGED ret
     ELSE /\ operand' = [operand EXCEPT !.pc = "done"]
          /\ ret' = operand.smallestDeltaHct
  /\ call' = [call EXCEPT !.op = "for"]
  /\ UNCHANGED <<tp, hct, calls, solverCalls>>

\* for ...; delta < 50.0; ...: into the body, or past the loop to the
\* return of smallestDeltaHct.
KeyLoop ==
  /\ operand.pc = "loop"
  /\ IF operand.delta < 50
     THEN /\ operand' = [operand EXCEPT !.pc = "body", !.iterations = @ + 1]
          /\ UNCHANGED ret
     ELSE /\ operand' = [operand EXCEPT !.pc = "done"]
          /\ ret' = operand.smallestDeltaHct
  /\ call' = [call EXCEPT !.op = "for"]
  /\ UNCHANGED <<tp, hct, calls, solverCalls>>

\* The rounded chromas are equal: return smallestDeltaHct.
KeyMatch ==
  /\ operand.pc = "body"
  /\ RoundsEqual(operand.chroma, GetChroma(operand.smallestDeltaHct))
  /\ operand' = [operand EXCEPT !.pc = "done"]
  /\ ret' = operand.smallestDeltaHct
  /\ call' = [call EXCEPT !.op = "return"]
  /\ UNCHANGED <<tp, hct, calls, solverCalls>>

\* They are not: hctAdd := hct.NewHct(hue, chroma, startTone+delta) and its
\* comparison.
KeyAdd ==
  /\ operand.pc = "body"
  /\ ~RoundsEqual(operand.chroma, GetChroma(operand.smallestDeltaHct))
  /\ \E argb \in SolverOutcomes(operand.hue, operand.chroma, F(50 + operand.delta)) :
        /\ operand' =
             [KeyCompared(NewHctSolved(operand.hue, operand.chroma,
                                       F(50 + operand.delta), argb))
                EXCEPT !.pc = "subtract"]
        /\ KeySolved(50 + operand.delta)
        /\ call' = [call EXCEPT !.op = "NewHct"]
        /\ UNCHANGED <<tp, hct, ret>>

\* hctSubtract := hct.NewHct(hue, chroma, startTone-delta) and its
\* comparison; delta += 1.0.
KeySubtract ==
  /\ operand.pc = "subtract"
  /\ \E argb \in SolverOutcomes(operand.hue, operand.chroma, F(50 - operand.delta)) :
        /\ operand' =
             [KeyCompared(NewHctSolved(operand.hue, operand.chroma,
                                       F(50 - operand.delta), argb))
                EXCEPT !.pc = "loop", !.delta = @ + 1]
        /\ KeySolved(50 - operand.delta)
        /\ call' = [call EXCEPT !.op = "NewHct"]
        /\ UNCHANGED <<tp, hct, ret>>

NextKey ==
  \/ KeyStart
  \/ KeyLoop
  \/ KeyMatch
  \/ KeyAdd
  \/ KeySubtract

SpecKey == InitKey /\ [][NextKey]_vars

\* The goroutine that runs createKeyColor goes on until it returns.
SpecKeyFair == SpecKey /\ WF_vars(NextKey)

(***************************************************************************)
(* The three places that take an ARGB to XYZ: XyzFromArgb, by              *)
(* MatrixMultiply and srgbToXyz; Cam16FromIntInViewingConditions and       *)
(* LabFromArgb, by formulas written out.                                   *)
(***************************************************************************)
\* x, y and z of Cam16FromIntInViewingConditions.
XyzOfCam16FromInt(redL, greenL, blueL) ==
  Run(<<redL, greenL, blueL,
        <<FAdd(FAdd(FMul(Dec(41233895, 10^8), redL), FMul(Dec(35762064, 10^8), greenL)),
               FMul(Dec(18051042, 10^8), blueL)),
          FAdd(FAdd(FMul(Dec(2126, 10^4), redL), FMul(Dec(7152, 10^4), greenL)),
               FMul(Dec(722, 10^4), blueL)),
          FAdd(FAdd(FMul(Dec(1932141, 10^8), redL), FMul(Dec(11916382, 10^8), greenL)),
               FMul(Dec(95034478, 10^8), blueL))>> >>)

\* Cam16FromIntInViewingConditions up to z.
XyzInCam16FromInt(argb) ==
  XyzOfCam16FromInt(Linearized(Small(Shr(And(argb, <<255, 0>>), 16))),
                    Linearized(Small(Shr(And(argb, <<0, 65280>>), 8))),
                    Linearized(Small(And(argb, <<0, 255>>))))

\* x, y and z of LabFromArgb.
XyzOfLabFromArgb(linearR, linearG, linearB, matrix) ==
  Run(<<linearR, linearG, linearB,
        <<FAdd(FAdd(FMul(matrix[1][1], linearR), FMul(matrix[1][2], linearG)),
               FMul(matrix[1][3], linearB)),
          FAdd(FAdd(FMul(matrix[2][1], linearR), FMul(matrix[2][2], linearG)),
               FMul(matrix[2][3], linearB)),
          FAdd(FAdd(FMul(matrix[3][1], linearR), FMul(matrix[3][2], linearG)),
               FMul(matrix[3][3], linearB))>> >>)

\* LabFromArgb up to z.
XyzInLabFromArgb(argb) ==
  XyzOfLabFromArgb(Linearized(RedFromArgb(argb)), Linearized(GreenFromArgb(argb)),
                   Linearized(BlueFromArgb(argb)), srgbToXyz)

\* The colours converted: every alpha, red, green and blue of these.
MatrixBytes == {0, 77, 255}
MatrixColours ==
  {<<256 * a + r, 256 * g + b>> :
     a \in {0, 255}, r \in MatrixBytes, g \in MatrixBytes, b \in MatrixBytes}

InitMatrix ==
  /\ tp = None /\ hct = None /\ calls = 0 /\ solverCalls = None
  /\ operand \in [argb : MatrixColours, done : {{}}]
  /\ ret = [f \in {"XyzFromArgb", "Cam16FromInt", "LabFromArgb"} |-> None]
  /\ call = [op |-> "none", args |-> <<>>]

\* The function f has been called on the colour and come to xyz.
Converted(f, xyz) ==
  /\ f \notin operand.done
  /\ operand' = [operand EXCEPT !.done = @ \cup {f}]
  /\ ret' = [ret EXCEPT ![f] = xyz]
  /\ call' = [op |-> f, args |-> <<operand.argb>>]
  /\ UNCHANGED <<tp, hct, calls, solverCalls>>

CallXyzFromArgb == Converted("XyzFromArgb", XyzFromArgb(operand.argb))

CallCam16FromInt == Converted("Cam16FromInt", XyzInCam16FromInt(operand.argb))

CallLabFromArgb == Converted("LabFromArgb", XyzInLabFromArgb(operand.argb))

NextMatrix ==
  \/ CallXyzFromArgb
  \/ CallCam16FromInt
  \/ CallLabFromArgb

SpecMatrix == InitMatrix /\ [][NextMatrix]_vars

(***************************************************************************)
(* RotationDirection, called on two angles, there and back.  The angles    *)
(* are quarters of a degree, which a float64 holds exactly.                *)
(***************************************************************************)
\* A faulty RotationDirection, which sends angles 180 apart down.
RotationDirectionBelow(from, to) ==
  IF FLt(SanitizeDegreesDouble(FSub(to, from)), F(180)) THEN FOne
  ELSE FNeg(FOne)

RotationDirection(from, to) ==
  IF FLe(SanitizeDegreesDouble(FSub(to, from)), F(180)) THEN FOne
  ELSE FNeg(FOne)

\* The angles drawn, in quarters of a degree: around 0, 180, 360 and 540
\* degrees, of either sign.
Quarters ==
  {s * (q + d) : s \in {-1, 1}, q \in {0, 720, 1440, 2160}, d \in {-1, 0, 1}}
    \cup {360, 500, -1000}

\* The angle of q quarters of a degree.
QuarterDegrees(q) == Dec(q, 4)

InitRot ==
  /\ tp = None /\ hct = None /\ ret = None /\ calls = 0 /\ solverCalls = None
  /\ call = [op |-> "none", args |-> <<>>]
  /\ operand \in Quarters \X Quarters

\* RotationDirection(from, to) is called, from and to in quarters.
Rotated(from, to) ==
  /\ ret' = RotationDirection(QuarterDegrees(from), QuarterDegrees(to))
  /\ call' = [op |-> "RotationDirection", args |-> <<from, to>>]
  /\ calls' = calls + 1
  /\ UNCHANGED <<tp, hct, operand, solverCalls>>

CallRotationDirection == calls = 0 /\ Rotated(operand[1], operand[2])

CallRotationDirectionBack == calls = 1 /\ Rotated(operand[2], operand[1])

NextRot == CallRotationDirection \/ CallRotationDirectionBack

SpecRot == InitRot /\ [][NextRot]_vars

(***************************************************************************)
(* The properties of the specification, each with a state in which its     *)
(* case happens.                                                           *)
(***************************************************************************)
\* C1: whatever calls were made before, the colour Tone(n) returns is the
\* ARGB of NewHct(hue, chroma, n), the solver's output for the hue and chroma
\* of the palette and the tone n, served from the cache or computed; and
\* every entry cache[k] is the solver's output for (hue, chroma, k).
C1ToneIsSolverOutput ==
  /\ \A k \in DOMAIN tp.cache :
       tp.cache[k] = solveToInt(tp.hue, tp.chroma, F(k))
  /\ call.op = "Tone" =>
       ret = ToInt(NewHct(tp.hue, tp.chroma, F(call.args[1])))

\* Tone served a colour from the cache, which holds other tones too.
C1Witness ==
  /\ call.op = "Tone" /\ call.ok
  /\ Cardinality(DOMAIN tp.cache) >= 3
  /\ ret = tp.cache[call.args[1]]

\* C2: the cache only grows: in every step a key of the cache stays one,
\* with the ARGB it had, and the keys added are at most the tone n of the
\* call Tone(n) that the step makes; no other call adds a key.
C2CacheGrowOnly ==
  [][/\ \A k \in DOMAIN tp.cache :
          k \in DOMAIN tp'.cache /\ tp'.cache[k] = tp.cache[k]
     /\ (DOMAIN tp'.cache) \ (DOMAIN tp.cache)
          \subseteq (IF call'.op = "Tone" THEN {call'.args[1]} ELSE {})]_vars

\* The cache holds every tone asked, and GetHct was called after that.
C2Witness ==
  /\ call.op = "GetHct"
  /\ Tones \subseteq DOMAIN tp.cache

\* C3: a setter sets argb to the solver's output for the triple stored
\* before, with the new value in the place of the one it sets, and sets hue,
\* chroma and tone to the CAM16 hue, the CAM16 chroma and the L* of that
\* argb.
C3SettersRewriteAllFields ==
  [][/\ call'.op = "SetHue" =>
          hct'.argb = solveToInt(call'.args[1], hct.chroma, hct.tone)
     /\ call'.op = "SetChroma" =>
          hct'.argb = solveToInt(hct.hue, call'.args[1], hct.tone)
     /\ call'.op = "SetTone" =>
          hct'.argb = solveToInt(hct.hue, hct.chroma, call'.args[1])
     /\ call'.op \in {"SetHue", "SetChroma", "SetTone"} =>
          /\ hct'.hue = Cam16FromInt(hct'.argb).hue
          /\ hct'.chroma = Cam16FromInt(hct'.argb).chroma
          /\ hct'.tone = LstarFromArgb(hct'.argb)]_vars

\* SetTone was called on an Hct that a call before it had changed.
C3Witness ==
  /\ call.op = "SetTone" /\ calls >= 2
  /\ call.args[1] = F(40)
  /\ hct.argb # ArgbFromLstar(F(40))

\* C4: the hue and the chroma of an Hct are the CAM16 hue and chroma of its
\* argb, and its tone is the L* of its argb, however the Hct was made.
C4FieldsConsistent ==
  /\ hct.hue = Cam16FromInt(hct.argb).hue
  /\ hct.chroma = Cam16FromInt(hct.argb).chroma
  /\ hct.tone = LstarFromArgb(hct.argb)

\* The chroma of the colour the solver produces for the hue, the chroma and
\* the tone.
RealisedChroma(hue, chroma, tone) ==
  Cam16FromInt(solveToInt(hue, chroma, F(tone))).chroma

\* The tones in the order 50, 51, 49, 52, 48, ..., 99, 1.
SearchOrder == [i \in 1..99 |-> IF i % 2 = 0 THEN 50 + i \div 2 ELSE 50 - i \div 2]

\* The realised chroma of every tone of the search, with the place of the
\* tone in the order.
RealisedChromas(hue, chroma) ==
  {<<i, RealisedChroma(hue, chroma, SearchOrder[i])>> : i \in 1..99}

\* The tone the search finds, of the realised chromas: the first in the
\* order whose realised chroma rounds to the chroma asked, or else the first
\* of those whose realised chroma is the closest to it.
SearchedToneOf(realised, chroma) ==
  LET delta(p) == FAbs(FSub(p[2], chroma))
      rounding == {p \in realised : FRound(p[2]) = FRound(chroma)}
      found ==
        IF rounding # {}
        THEN CHOOSE p \in rounding : \A q \in rounding : p[1] <= q[1]
        ELSE CHOOSE p \in realised :
               \A q \in realised :
                 \/ FLt(delta(p), delta(q))
                 \/ ~FLt(delta(q), delta(p)) /\ p[1] <= q[1]
  IN  SearchOrder[found[1]]

SearchedTone(hue, chroma) == SearchedToneOf(RealisedChromas(hue, chroma), chroma)

\* C5: the key colour of the palette built from a hue and a chroma is the
\* HCT of the first tone in the order 50, 51, 49, ... whose realised chroma
\* rounds to the chroma asked, or else of the tone whose realised chroma is
\* the closest to it.
C5KeyColorIsSearched ==
  call.op = "NewTonalPaletteFromHueChroma" =>
    /\ tp.keyColor.tone = F(SearchedTone(tp.hue, tp.chroma))
    /\ tp.keyColor.argb = solveToInt(tp.hue, tp.chroma, tp.keyColor.tone)

\* C6: Tone(0) is 0xFF000000 and Tone(100) is 0xFFFFFFFF, in every palette.
C6EndTones ==
  /\ 0 \in DOMAIN tp.cache => tp.cache[0] = <<65280, 0>>
  /\ 100 \in DOMAIN tp.cache => tp.cache[100] = <<65535, 65535>>
  /\ call.op = "Tone" /\ call.args[1] = 0 => ret = <<65280, 0>>
  /\ call.op = "Tone" /\ call.args[1] = 100 => ret = <<65535, 65535>>

\* Tone(100) returned white in a palette of a high chroma, whose tone 0 is
\* in the cache.
C6Witness ==
  /\ call.op = "Tone" /\ call.args[1] = 100 /\ ~call.ok
  /\ ret = <<65535, 65535>>
  /\ 0 \in DOMAIN tp.cache
  /\ FGt(tp.chroma, F(90))

\* C7: ArgbFromRgb returns 0xFF in the alpha byte and the low 8 bits of
\* red, green and blue in theirs, for components of any sign and size: the
\* result lies in [0xFF000000, 0xFFFFFFFF].
C7ArgbFromRgbMasks ==
  call.op = "ArgbFromRgb" =>
    /\ ret = <<255 * 256 + (call.args[1] % 256),
               (call.args[2] % 256) * 256 + (call.args[3] % 256)>>
    /\ ret[1] \in 65280..65535 /\ ret[2] \in 0..65535

\* ArgbFromRgb packed a negative component and two above 255.
C7Witness ==
  /\ call.op = "ArgbFromRgb"
  /\ call.args = <<-1, 256, 511>>
  /\ ret = <<65535, 255>>

\* C8: an ARGB of alpha byte 255 is opaque, and ArgbFromRgb of its red, green
\* and blue is the ARGB again; the red, green and blue of ArgbFromRgb(r, g, b)
\* are r, g and b, for r, g and b in 0..255.
C8PackingRoundTrips ==
  /\ call.op = "FromArgb" /\ call.args[1][1] \div 256 = 255 => ret.opaque
  /\ call.op = "ArgbFromRgbAgain" /\ call.args[1][1] \div 256 = 255 =>
       ret = call.args[1]
  /\ (/\ call.op = "FromArgb" /\ "red" \in DOMAIN operand
      /\ {operand.red, operand.green, operand.blue} \subseteq 0..255) =>
       /\ ret.red = operand.red
       /\ ret.green = operand.green
       /\ ret.blue = operand.blue

\* The components of an opaque ARGB drawn were packed into that ARGB again.
C8Witness ==
  /\ call.op = "ArgbFromRgbAgain"
  /\ "argb" \in DOMAIN operand /\ operand.argb = <<65281, 65534>>
  /\ ret = operand.argb

\* C9: the component that Delinearized returns for the value Linearized
\* returned for a component of 0..255 is that component.
C9DelinearizedInvertsLinearized ==
  call.op = "Delinearized" => ret = operand

\* A component above the linear segment of the transfer function came back.
C9Witness ==
  /\ call.op = "Delinearized"
  /\ operand = 200 /\ ret = 200

\* C10: the hue of the Hct that NewHct makes lies in [0, 360), whatever hue
\* was passed.
C10HueSanitised ==
  call.op = "NewHct" => FGe(hct.hue, FZero) /\ FLt(hct.hue, F(360))


\* C11: the cache is the only part of a palette that changes: GetHct and
\* the getters leave the whole palette as it was, and Tone(n) changes at most
\* the cache entry of n, so hue, chroma and keyColor stay what the
\* constructor made them in every step.
C11OnlyTheCacheChanges ==
  [][/\ tp'.hue = tp.hue /\ tp'.chroma = tp.chroma
     /\ tp'.keyColor = tp.keyColor
     /\ call'.op \in {"GetHct", "GetHue", "GetChroma", "GetKeyColor"} =>
          tp' = tp
     /\ call'.op = "Tone" =>
          /\ (DOMAIN tp'.cache) \ {call'.args[1]}
               = (DOMAIN tp.cache) \ {call'.args[1]}
          /\ \A k \in (DOMAIN tp.cache) \ {call'.args[1]} :
               tp'.cache[k] = tp.cache[k]]_vars

\* GetHct returned the colour of tone 20, which the cache, holding another
\* tone, does not hold after it.
C11Witness ==
  /\ call.op = "GetHct" /\ call.args[1] = F(20)
  /\ ret.argb = solveToInt(tp.hue, tp.chroma, F(20))
  /\ DOMAIN tp.cache = {0}

\* C12: a ViewingConditions is never changed after MakeViewingConditions
\* returned it, and neither is DefaultViewingConditions: the forward
\* transforms, Viewed, InViewingConditions, the getters and
\* XyzInViewingConditions leave every field as it was, the three elements
\* of RgbD included, when the returnArray given to XyzInViewingConditions
\* is nil or an array that shares nothing with RgbD.
C12UnchangedWithoutSharing ==
  [][~(call'.op = "XyzInViewingConditions" /\ call'.args[2] = "RgbD") =>
       /\ operand'.vc = operand.vc
       /\ operand'.default = operand.default]_vars

\* XyzInViewingConditions wrote the XYZ to an array of the caller, with
\* the ViewingConditions it was given as MakeViewingConditions made it.
C12Witness ==
  /\ call.op = "XyzInViewingConditions" /\ call.args = <<"vc", "out">>
  /\ operand.out = ret /\ operand.out # <<FZero, FZero, FZero>>
  /\ operand.vc = DefaultViewingConditionsWithBackgroundLstar(F(20))
  /\ operand.default = DefaultViewingConditions

\* C12 as the specification states it: no call changes a ViewingConditions,
\* whatever returnArray is.
C12NeverChanged ==
  [][operand'.vc = operand.vc /\ operand'.default = operand.default]_vars

\* The lowercase hexadecimal digit of d in 0..15.
LowerHex(d) ==
  CASE d = 0 -> "0" [] d = 1 -> "1" [] d = 2 -> "2" [] d = 3 -> "3"
    [] d = 4 -> "4" [] d = 5 -> "5" [] d = 6 -> "6" [] d = 7 -> "7"
    [] d = 8 -> "8" [] d = 9 -> "9" [] d = 10 -> "a" [] d = 11 -> "b"
    [] d = 12 -> "c" [] d = 13 -> "d" [] d = 14 -> "e" [] d = 15 -> "f"

\* C13: HexFromArgb(argb) is '#' and six lowercase hexadecimal digits, the
\* six digits of the low 24 bits of argb, red first and blue last, whatever
\* the bits above them are; HexFromArgb(0xFF343DFF) is "#343dff".
C13HexIsLowerRrggbb ==
  call.op = "HexFromArgb" =>
    /\ ret = "#" \o LowerHex((operand[1] % 256) \div 16)
                 \o LowerHex(operand[1] % 16)
                 \o LowerHex(operand[2] \div 4096)
                 \o LowerHex((operand[2] \div 256) % 16)
                 \o LowerHex((operand[2] \div 16) % 16)
                 \o LowerHex(operand[2] % 16)
    /\ Len(ret) = 7
    /\ operand = <<65332, 15871>> => ret = "#343dff"

\* HexFromArgb formatted 0xFF343DFF.
C13Witness ==
  /\ call.op = "HexFromArgb"
  /\ operand = <<65332, 15871>>
  /\ ret = "#343dff"

\* 1e-9.
Tolerance == DDiv(D(1), D(1000000000))

\* C14: LstarFromY(YFromLstar(L)) is L up to 1e-9 for the L* in [0, 100],
\* and at L = 8 both YFromLstar and labF take the branch that is not the
\* cubic one, labF being called with 216 / 24389.
C14LstarRoundTrips ==
  call.op = "LstarFromY" =>
    /\ DGt(Tolerance, DAbs(DSub(ret, operand)))
    /\ operand = D(8) =>
         /\ ~YFromLstarCubic(operand)
         /\ DDiv(call.args[1], D(100)) = e64
         /\ ~labFCubic(DDiv(call.args[1], D(100)))

C14Witness ==
  /\ call.op = "LstarFromY"
  /\ operand = D(8)
  /\ ret = D(8)

\* C15: SanitizeDegreesInt(d) is in 0 .. 359 and differs from d by a
\* multiple of 360, for negative d too; applied to its own result it
\* returns that result.
C15SanitizeDegreesIntWraps ==
  /\ call.op = "SanitizeDegreesInt" =>
       /\ 0 <= ret /\ ret < 360
       /\ (operand - ret) % 360 = 0
  /\ call.op = "SanitizeDegreesIntAgain" => ret = call.args[1]

C15Witness ==
  /\ call.op = "SanitizeDegreesIntAgain"
  /\ operand = -725
  /\ ret = 355

\* C16: over any sequence of calls Tone invokes the solver at most once for
\* each tone n: the first Tone(n) invokes it, and a Tone(n) made when n is
\* in the cache is answered from the cache, with no invocation.
C16SolverOncePerTone ==
  /\ \A tone \in Tones :
       solverCalls[tone] = IF tone \in DOMAIN tp.cache THEN 1 ELSE 0
  /\ call.op = "Tone" /\ call.ok => ret = tp.cache[call.args[1]]

C16Witness ==
  /\ call.op = "Tone" /\ call.ok
  /\ call.args[1] = 20
  /\ solverCalls[20] = 1
  /\ \E tone \in Tones : solverCalls[tone] = 0

\* C17: for a content core palette, and for a core palette whose seed has
\* a CAM16 chroma of 48 or more, the palette A1 has the hue and the chroma
\* of NewTonalPaletteFromInt of the seed, which are those of the seed in
\* CAM16, and A1.Tone(n) is the colour that Tone(n) of that palette
\* returns, for every tone n asked of both.
C17A1IsTheSeedPalette ==
  (operand.isContent \/ FGe(Cam16FromInt(operand.argb).chroma, F(48))) =>
    /\ operand.core.A1.hue = tp.hue /\ tp.hue = Cam16FromInt(operand.argb).hue
    /\ operand.core.A1.chroma = tp.chroma
    /\ tp.chroma = Cam16FromInt(operand.argb).chroma
    /\ \A tone \in DOMAIN tp.cache \cap DOMAIN operand.core.A1.cache :
         operand.core.A1.cache[tone] = tp.cache[tone]
    /\ call.op = "A1.Tone" =>
         ret = ToInt(NewHct(tp.hue, tp.chroma, F(call.args[1])))
    /\ call.op = "Tone" =>
         ret = ToInt(NewHct(operand.core.A1.hue, operand.core.A1.chroma,
                            F(call.args[1])))

\* Tone was called on A1 of a core palette that is not a content palette,
\* of a seed of chroma above 48, after the same tones were asked of the
\* TonalPalette.
C17Witness ==
  /\ call.op = "A1.Tone"
  /\ ~operand.isContent
  /\ operand.argb = <<65280, 255>>
  /\ DOMAIN tp.cache = CoreTones
  /\ DOMAIN operand.core.A1.cache = CoreTones

\* C18: Delinearized returns an integer of 0 .. 255, which is 0 for a
\* component below 0 and 255 for a component above 100, and every channel
\* of ArgbFromLinrgb is one of 0 .. 255.
C18DelinearizedClips ==
  /\ call.op = "Delinearized" =>
       /\ ret \in 0 .. 255
       /\ FLt(operand, FZero) => ret = 0
       /\ FGt(operand, F(100)) => ret = 255
  /\ call.op = "ArgbFromLinrgb" =>
       /\ RedFromArgb(ret) \in 0 .. 255
       /\ GreenFromArgb(ret) = 0
       /\ BlueFromArgb(ret) = Delinearized(F(50))

\* C19: XyzInViewingConditions returns three numbers for every J, C and
\* h; when C is 0 or J is 0 it takes alpha to be 0 and divides nothing by
\* sqrt(J / 100), so that the result is the one of the colour of the same
\* J with chroma 0 and hue 0, and is <<0, 0, 0>> when J is 0.
C19AlphaIsGuarded ==
  call.op = "XyzInViewingConditions" =>
    /\ Len(ret) = 3
    /\ \A i \in 1..3 : Len(ret[i]) = 2
    /\ (operand.cam.chroma = FZero \/ operand.cam.j = FZero) =>
         /\ AlphaOf(operand.cam) = FZero
         /\ ret = XyzInViewingConditions(Jch(operand.cam.j, FZero, FZero),
                                         operand.vc)
    /\ operand.cam.j = FZero => ret = <<FZero, FZero, FZero>>

\* The lightness was 0 and the chroma was not.
C19Witness ==
  /\ call.op = "XyzInViewingConditions"
  /\ operand.cam = Jch(FZero, F(48), F(210))
  /\ ret = <<FZero, FZero, FZero>>

\* a and b differ by less than a hundred thousandth of b.
Same(a, b) == FLt(FMul(FAbs(FSub(a, b)), F(100000)), FAbs(b))

\* C20: the Cam16 rebuilt from the J, C and h of the forward transform,
\* in the same viewing conditions, has its Q and its M: Q is
\* (4 / c) * sqrt(J / 100) * (Aw + 4) * FlRoot and M is C * FlRoot.
C20FromJchAgreesWithForward ==
  call.op = "cam16FromJchInViewingConditions" =>
    /\ Same(ret.q, hct.cam.q)
    /\ Same(ret.q, FMul(FMul(FMul(FDiv(F(4), operand.vc.C),
                                  FSqrt(FDiv(hct.cam.j, F(100)))),
                             FAdd(operand.vc.Aw, F(4))),
                        operand.vc.FlRoot))
    /\ Same(ret.m, hct.cam.m)
    /\ Same(ret.m, FMul(hct.cam.chroma, operand.vc.FlRoot))

\* Every colour a call has returned is the solver's output for the tone of
\* the call, and every entry of the cache is the solver's output for its
\* key.
RaceColoursRight ==
  /\ \A th \in Threads :
       th \in operand.returned =>
         ret[th] = solveToInt(tp.hue, tp.chroma, F(operand.tone[th]))
  /\ \A k \in DOMAIN tp.cache :
       tp.cache[k] = solveToInt(tp.hue, tp.chroma, F(k))

KeyWorkBounded ==
  /\ operand.iterations <= 49
  /\ operand.pc \in {"body", "subtract"} => operand.delta \in 1..49
  /\ calls <= 99
  /\ solverCalls[0] = 0 /\ solverCalls[100] = 0
  /\ \A tone \in KeyTones : solverCalls[tone] > 0 => tone \in 1..99
  /\ operand.pc = "done" /\ ~IsNaN(operand.chroma) =>
       ret = createKeyColor(operand.hue, operand.chroma)

\* C22: the construction of a TonalPalette terminates in bounded work:
\* createKeyColor returns, its loop has run at most 49 iterations (delta =
\* 1 .. 49), the solver has been called at most 99 times in all, and only
\* for tones in 1 .. 99, never for tone 0 or tone 100.
C22KeyColorIsBounded == [](KeyWorkBounded) /\ <>(operand.pc = "done")

\* The loop has run its 49 iterations and the solver has been called 99
\* times, for each tone of 1 .. 99 once.
C22Witness ==
  /\ operand.pc = "done" /\ operand.iterations = 49 /\ calls = 99
  /\ \A tone \in 1..99 : solverCalls[tone] = 1

\* C23: XyzFromArgb, by MatrixMultiply and srgbToXyz, comes to the same X,
\* Y and Z as the formulas of Cam16FromIntInViewingConditions and of
\* LabFromArgb: each is the product of the linearised red, green and blue
\* with a row of the matrix, the rows in the order X, Y, Z.
C23XyzFromArgbIsTheInlineFormulas ==
  /\ "XyzFromArgb" \in operand.done =>
       /\ ret.XyzFromArgb = XyzFromArgb(operand.argb)
       /\ \A i \in 1..3 :
            ret.XyzFromArgb[i] =
              MatrixRow(<<Linearized(RedFromArgb(operand.argb)),
                          Linearized(GreenFromArgb(operand.argb)),
                          Linearized(BlueFromArgb(operand.argb))>>, srgbToXyz[i])
  /\ {"XyzFromArgb", "Cam16FromInt"} \subseteq operand.done =>
       ret.XyzFromArgb = ret.Cam16FromInt
  /\ {"XyzFromArgb", "LabFromArgb"} \subseteq operand.done =>
       ret.XyzFromArgb = ret.LabFromArgb

\* The three have converted a colour of three different components, which
\* is not a grey.
C23Witness ==
  /\ operand.done = {"XyzFromArgb", "Cam16FromInt", "LabFromArgb"}
  /\ operand.argb = <<65280 + 255, 77 * 256>>
  /\ ret.XyzFromArgb = ret.Cam16FromInt /\ ret.XyzFromArgb = ret.LabFromArgb
  /\ ret.XyzFromArgb[1] # ret.XyzFromArgb[2]

\* C24: RotationDirection(from, to) is 1.0 when to - from reduced into
\* [0, 360) is at most 180, angles 180 apart and equal angles among them,
\* and -1.0 otherwise; it is never anything else.
C24RotationDirectionIsTheShorterWay ==
  call.op = "RotationDirection" =>
    /\ ret \in {FOne, FNeg(FOne)}
    /\ ret = FOne <=> (call.args[2] - call.args[1]) % 1440 <= 720

\* Angles 180 apart have been taken both ways, and equal angles, and angles
\* more than 180 apart.
C24Witness ==
  /\ calls = 2 /\ ret = FOne
  /\ Abs(operand[1] - operand[2]) = 720
  /\ RotationDirection(QuarterDegrees(operand[1]), QuarterDegrees(operand[2])) = FOne
  /\ RotationDirection(QuarterDegrees(1), QuarterDegrees(1)) = FOne
  /\ RotationDirection(QuarterDegrees(0), QuarterDegrees(721)) = FNeg(FOne)
=============================================================================
